---- MODULE Spec2Model ----
(***************************************************************************)
(* A model of the instrument library of brycedcarter/tools:                *)
(*   - the CPX400DP protocol engine (send, query, _check_status and the    *)
(*     status register cascade), run by one or two callers against a       *)
(*     scripted device behind one serial port;                             *)
(*   - the instrument life cycle (_Instrument: construction, the           *)
(*     _open_instruments registry, close, the context manager, __del__);   *)
(*   - the SIGINT_protected shutdown wrapper;                              *)
(*   - SerialConnection and the atomic_operation lock decorator.           *)
(* Every caller runs the driver's methods one transport operation at a     *)
(* time; a caller's position is an explicit call stack of frames.          *)
(***************************************************************************)
EXTENDS Integers, Sequences, FiniteSets, TLC

VARIABLES
  dev,       \* the scripted device: register values and the commands it never answers
  inbuf,     \* the serial port's input buffer: the response lines not read yet
  stack,     \* per caller: the call stack of driver frames (<<>> when idle)
  ret,       \* per caller: the value returned by the callee that returned last
  outcome,   \* per caller: how the last top-level call ended
  io,        \* per caller: the transport operations of the current top-level call
  warnings,  \* per caller: the log records emitted during the current top-level call
  calls,     \* per caller: the number of top-level calls started
  call,      \* per caller: the current (or last) top-level call: its operation,
             \* command, channel and argument, and prev, the call before it
  registry,  \* _Instrument._open_instruments: the instruments the WeakSet holds
  obj,       \* per instrument: where the object is in its life
  conn,      \* per instrument: self.connection
  refs,      \* per instrument: the number of strong references to the object
  inWith,    \* per instrument: a with-block on the instrument is open
  closes,    \* per instrument: the number of close() calls made
  lastClose, \* per instrument: how the last close() call ended
  touched,   \* per instrument: a port operation was issued on a closed port
  exitPath,  \* per instrument: how the last with-block was left
  channels,  \* per instrument: self._channels, as the list of the channels' indices
  identity,  \* per instrument: the identity attributes of the object
  closing,   \* per thread and for the finalizer: the close() call it is inside
  ctor,      \* per instrument: how its constructor ended
  script,    \* the scripted shutdown run: how each item's close behaves, the timeout
  close_items,            \* the collection given to SIGINT_protected
  sigint_handler,         \* the handler installed for SIGINT
  sigalrm_handler,        \* the handler installed for SIGALRM
  default_sigint_handler, \* the local of SIGINT_protected_func that saves the handler
  alarm,     \* seconds until SIGALRM is delivered (0: no alarm is scheduled)
  hook,      \* the position of SIGINT_protected_func
  insts,     \* the items the for loop of the hook has still to visit
  closeCalls, \* the items close() was called on by the hook, in order
  hookEnd,   \* how SIGINT_protected_func ended
  atCatch,   \* close_items at the moment the KeyboardInterrupt was caught
  sigints,   \* the number of SIGINT signals delivered
  stray,     \* a TimeoutError was raised by the alarm after the hook had ended
  sconn,     \* the SerialConnection object and its port: _line_term, the last
             \* settings dict, the read timeout, the lines received, the data sent last
  atomic_lock, \* self._atomic_lock of the connection: the owning thread, the depth
  frames,    \* per thread: the atomic_func calls it is inside, innermost last
  done       \* per thread: its last call on the connection: the arguments given,
             \* the arguments the wrapped method received, and how it ended

ioVars == <<dev, inbuf, stack, ret, outcome, io, warnings, calls, call>>
lifeVars == <<registry, obj, conn, refs, inWith, closes, lastClose, touched, exitPath,
              channels, identity, closing, ctor>>
sdVars == <<script, close_items, sigint_handler, sigalrm_handler,
            default_sigint_handler, alarm, hook, insts, closeCalls, hookEnd,
            atCatch, sigints, stray>>
scVars == <<sconn, atomic_lock, frames, done>>
vars == <<dev, inbuf, stack, ret, outcome, io, warnings, calls, call,
          registry, obj, conn, refs, inWith, closes, lastClose, touched, exitPath,
          channels, identity, closing, ctor,
          script, close_items, sigint_handler, sigalrm_handler,
          default_sigint_handler, alarm, hook, insts, closeCalls, hookEnd,
          atCatch, sigints, stray,
          sconn, atomic_lock, frames, done>>

(***************************************************************************)
(* Bounds of the model.                                                    *)
(***************************************************************************)
\* calls each thread makes on the serial connection
MaxAtomic == 1
\* lines that arrive at the serial connection's port
MaxArrivals == 1
\* top-level send/query calls each caller makes
MaxCalls == 1
\* frames on one caller's stack before the interpreter raises RecursionError
RecursionLimit == 7
\* strong references one instrument object can have
MaxRefs == 2
\* close() calls counted per instrument
MaxCloses == 3
\* calls a caller makes that open the instrument: the constructor and the
\* later calls of _open_concrete()
MaxOpens == 2
\* items that can be in close_items
MaxItems == 2
\* the largest timeout (in seconds) given to SIGINT_protected
MaxTimeout == 2
\* SIGINT signals delivered in one run
MaxSigints == 2
\* accessor calls one caller makes in one run
MaxAccesses == 2
\* changes of a device value in one run
MaxChanges == 1
\* lines the device sends late in one run
MaxLate == 1

(***************************************************************************)
(* Program constants.                                                      *)
(***************************************************************************)
\* the largest value of an 8-bit status register (0 <= stb <= 255)
RegMax == 255

Callers == {1, 2}
Insts == {1, 2}

(***************************************************************************)
(* Lines, commands and the scripted device.                                *)
(***************************************************************************)
\* A line is what _read returns for one reply (or a value an accessor made
\* of one). src names the command it answers; a line that is the decimal
\* numeral of an integer has isnum and num; a line made of fields has its
\* separator and its fields, and the text of the line is the fields joined by
\* the separator, followed by CR LF.
NumLine(cmd, n) == [src |-> cmd, isnum |-> TRUE, num |-> n, sep |-> "", parts |-> <<>>]
TextLine(cmd) == [src |-> cmd, isnum |-> FALSE, num |-> 0, sep |-> "", parts |-> <<>>]
NoLine == [src |-> "", isnum |-> FALSE, num |-> 0, sep |-> "", parts |-> <<>>]
FieldLine(cmd, sep, parts) ==
  [src |-> cmd, isnum |-> FALSE, num |-> 0, sep |-> sep, parts |-> parts]
\* the terminator _read leaves at the end of the line it returns
CRLF == "\r\n"

SetCmd == "V1 5.000"
QueryCmd == "V1?"
RegisterQueries == {"*STB?", "LSR1?", "LSR2?", "*ESR?", "EER?"}

\* bit k of a register value v in 0..255 (Python: v & (1 << k))
Bit(v, k) == (v \div (2 ^ k)) % 2 = 1

\* the channels of a CPX400DP
Channels == {1, 2}
\* the command stem of channel n: f'V{self.index}'
Stem(name, n) == name \o ToString(n)

(***************************************************************************)
(* Decimal text. Values are integer numbers of thousandths.                *)
(***************************************************************************)
\* (a format with two decimals)
Fixed2(m) ==
  ToString(m \div 1000) \o "." \o ToString((m \div 100) % 10)
    \o ToString((m \div 10) % 10)

\* f'{value:.3f}' for the value m / 1000, m >= 0
Fixed3(m) ==
  ToString(m \div 1000) \o "." \o ToString((m \div 100) % 10)
    \o ToString((m \div 10) % 10) \o ToString(m % 10)

\* the largest setpoint, in thousandths
MaxMilli == 12345
\* the setpoints given to the setters
Setpoints == {0, 5, 1500, MaxMilli}
\* the values whose numerals appear on the wire: the setpoints, the same cut
\* to two decimals, and the device's readings
Denotable == Setpoints \cup {10 * (m \div 10) : m \in Setpoints} \cup {5000, 32100}

\* the decimal numerals float() reads as v / 1000
Numerals(v) ==
  LET whole == ToString(v \div 1000)
      d1 == ToString((v \div 100) % 10)
      d2 == ToString((v \div 10) % 10)
      d3 == ToString(v % 10) IN
    {whole \o "." \o d1 \o d2 \o d3}
      \cup (IF v % 10 = 0 THEN {whole \o "." \o d1 \o d2} ELSE {})
      \cup (IF v % 100 = 0 THEN {whole \o "." \o d1} ELSE {})
      \cup (IF v % 1000 = 0 THEN {whole \o ".", whole} ELSE {})
\* the character at position k of a text
Char(text, k) == SubSeq(text, k, k)

\* float() and int() ignore white space around the numeral
WhiteSpace == {" ", "\t", "\r", "\n"}
RECURSIVE Strip(_)
Strip(text) ==
  IF text = "" THEN text
  ELSE IF Char(text, 1) \in WhiteSpace THEN Strip(SubSeq(text, 2, Len(text)))
  ELSE IF Char(text, Len(text)) \in WhiteSpace
  THEN Strip(SubSeq(text, 1, Len(text) - 1))
  ELSE text

\* a numeral without its sign, and the sign
Unsigned(text) ==
  IF text # "" /\ Char(text, 1) \in {"+", "-"} THEN SubSeq(text, 2, Len(text)) ELSE text
Sign(text) == IF text # "" /\ Char(text, 1) = "-" THEN -1 ELSE 1

AllDigits(text) == \A k \in 1 .. Len(text) : \E d \in 0 .. 9 : Char(text, k) = ToString(d)
DigitOf(c) == CHOOSE d \in 0 .. 9 : ToString(d) = c
\* the number a text of decimal digits denotes
RECURSIVE DecimalOf(_)
DecimalOf(text) ==
  IF text = "" THEN 0
  ELSE 10 * DecimalOf(SubSeq(text, 1, Len(text) - 1)) + DigitOf(Char(text, Len(text)))

\* str.split(sep) on a text, for a separator of one character: the text is
\* cut at every occurrence of the separator
RECURSIVE SplitText(_, _)
SplitText(text, sep) ==
  LET hits == {k \in 1 .. Len(text) : Char(text, k) = sep} IN
    IF hits = {} THEN <<text>>
    ELSE LET k == CHOOSE k \in hits : \A j \in hits : k <= j IN
           <<SubSeq(text, 1, k - 1)>> \o SplitText(SubSeq(text, k + 1, Len(text)), sep)

\* float(text): an optional sign, digits, and optionally a point and more
\* digits, with white space around it (the texts on the wire have no
\* exponent, underscore, inf or nan); the value in thousandths
IsFloat(text) ==
  LET f == SplitText(Unsigned(Strip(text)), ".") IN
    /\ Len(f) <= 2
    /\ \A k \in 1 .. Len(f) : AllDigits(f[k])
    /\ \E k \in 1 .. Len(f) : f[k] # ""
FloatOf(text) ==
  LET f == SplitText(Unsigned(Strip(text)), ".")
      frac == IF Len(f) = 2 THEN SubSeq(f[2] \o "000", 1, 3) ELSE "000" IN
    Sign(Strip(text)) * (1000 * DecimalOf(f[1]) + DecimalOf(frac))

\* int(text): an optional sign and digits, with white space around it
IsIntText(text) ==
  LET digits == Unsigned(Strip(text)) IN digits # "" /\ AllDigits(digits)
IntOfText(text) == Sign(Strip(text)) * DecimalOf(Unsigned(Strip(text)))

\* the text of a line: the numeral, or the fields joined by the separator,
\* and CR LF
RECURSIVE Join(_, _)
Join(parts, sep) ==
  IF parts = <<>> THEN ""
  ELSE IF Len(parts) = 1 THEN parts[1]
  ELSE parts[1] \o sep \o Join(Tail(parts), sep)

Text(line) ==
  (IF line.isnum THEN ToString(line.num) ELSE Join(line.parts, line.sep)) \o CRLF

\* str.split(sep) on the text of a line
Split(line, sep) == SplitText(Text(line), sep)

(***************************************************************************)
(* The device: its status registers, the commands it leaves unanswered,    *)
(* and mem, the line it answers each other query with.                     *)
(***************************************************************************)
SetpointStems == {"V", "I", "OVP", "OCP"}
ReadingQuery(name, n) == Stem(name, n) \o "O?"
SetpointQuery(name, n) == Stem(name, n) \o "?"
ReadBackQueries == {"LSE1?", "LSE2?", "*SRE?", "*ESE?"}
ChannelQueries ==
  {ReadingQuery(name, n) : name \in {"V", "I"}, n \in Channels}
    \cup {SetpointQuery(name, n) : name \in SetpointStems \cup {"OP"}, n \in Channels}

\* the reply to a reading query: the value followed by its unit
Unit(name) == IF name = "V" THEN "V" ELSE "A"
ReadingLine(name, n, text) ==
  FieldLine(ReadingQuery(name, n), Unit(name), <<text, "">>)
\* the reply to a setpoint query: the stem, a space, the value
SetpointLine(name, n, text) ==
  FieldLine(SetpointQuery(name, n), " ", <<Stem(name, n), text>>)
IdnLine(fields) == FieldLine("*IDN?", ",", fields)
IdnFields == <<"THURLBY THANDAR", "CPX400DP", "527296", "1.03">>

\* a device with both outputs off, every setpoint and reading 0, and every
\* enable register set to 255
DefaultMem ==
  [q \in ChannelQueries \cup ReadBackQueries \cup {"*IDN?"} |->
     IF q \in ReadBackQueries THEN NumLine(q, RegMax)
     ELSE IF q = "*IDN?" THEN IdnLine(IdnFields)
     ELSE IF \E n \in Channels : q = SetpointQuery("OP", n)
          THEN SetpointLine("OP", CHOOSE n \in Channels : q = SetpointQuery("OP", n), "0")
     ELSE IF \E name \in {"V", "I"}, n \in Channels : q = ReadingQuery(name, n)
          THEN LET c == CHOOSE c \in {"V", "I"} \X Channels : q = ReadingQuery(c[1], c[2])
               IN ReadingLine(c[1], c[2], "0.000")
     ELSE LET c == CHOOSE c \in SetpointStems \X Channels : q = SetpointQuery(c[1], c[2])
          IN SetpointLine(c[1], c[2], "0.000")]

\* the texts a set command can carry
ArgTexts == UNION {Numerals(v) : v \in Denotable}
\* The device after it received cmd: a command that sets a setpoint makes it
\* the answer to the setpoint's query; any other command changes nothing.
Received(cmd) ==
  IF cmd \in RegisterQueries \cup DOMAIN dev.mem THEN dev
  ELSE LET hits == {c \in SetpointStems \X Channels \X ArgTexts :
                      cmd = Stem(c[1], c[2]) \o " " \o c[3]} IN
         IF hits = {} THEN dev
         ELSE LET c == CHOOSE c \in hits : TRUE IN
                [dev EXCEPT !.mem[SetpointQuery(c[1], c[2])] =
                              SetpointLine(c[1], c[2], c[3])]

\* What the device puts into the input buffer when it receives cmd: nothing
\* for a command it does not answer, one line otherwise.
Reply(cmd) ==
  IF cmd \in dev.mute THEN <<>>
  ELSE CASE cmd = "*STB?" -> <<NumLine(cmd, dev.stb)>>
         [] cmd = "LSR1?" -> <<NumLine(cmd, dev.lsr1)>>
         [] cmd = "LSR2?" -> <<NumLine(cmd, dev.lsr2)>>
         [] cmd = "*ESR?" -> <<NumLine(cmd, dev.esr)>>
         [] cmd = "EER?"  -> <<NumLine(cmd, dev.eer)>>
         [] cmd \in DOMAIN dev.mem -> <<dev.mem[cmd]>>
         [] OTHER -> <<>>

(***************************************************************************)
(* Frames, outcomes and log records.                                       *)
(***************************************************************************)
Frame(fn, pc, cmd, reg) == [fn |-> fn, pc |-> pc, cmd |-> cmd, reg |-> reg]
Top(t) == stack[t][Len(stack[t])]
Pop(s) == SubSeq(s, 1, Len(s) - 1)
SetPc(s, pc) == [s EXCEPT ![Len(s)].pc = pc]

Pending == [kind |-> "none", type |-> "", msg |-> "", val |-> NoLine]
Returned(line) == [kind |-> "return", type |-> "", msg |-> "", val |-> line]
Raised(type, msg) == [kind |-> "raise", type |-> type, msg |-> msg, val |-> NoLine]

Ev(op, cmd) == [op |-> op, cmd |-> cmd]
Warn(ch, text) == [ch |-> ch, text |-> text]
FlushWarning == Warn(0, "Flushing unread content from the input buffer")

\* The exception raised by _read when read_until returns nothing.
ReadTimeout == Raised("TimeoutError", "Did not recieve any response from CPX400DP")

(***************************************************************************)
(* The pure decoders of the driver.                                        *)
(***************************************************************************)
\* (a range test without its lower bound)
InRangeUpperOnly(v) == v <= RegMax

InRange(v) == 0 <= v /\ v <= RegMax

\* int(line): the integer a response line holds, when it holds one.
IsInt(line) == line.isnum
IntOf(line) == line.num
NotAnInt == Raised("ValueError", "invalid literal for int() with base 10")

\* _process_limit_event_register: the warnings of one limit status value, in
\* the order the code logs them (bits 0, 1, 2, 3, 4, 6; bits 5 and 7 unused).
LimitText(k) ==
  CASE k = 0 -> "output entered voltage limit mode"
    [] k = 1 -> "output entered current limit mode"
    [] k = 2 -> "output over voltage trip occured"
    [] k = 3 -> "output over current trip occured"
    [] k = 4 -> "output entered power limit mode (unregulated)"
    [] k = 6 -> "trip occured (frontpanel reset required)"
    [] OTHER -> ""

\* (a decode that also reports the unused bit 5)
LimitBitsWithUnused == <<0, 1, 2, 3, 4, 5, 6>>

LimitBits == <<0, 1, 2, 3, 4, 6>>

RECURSIVE LimitWarningsFrom(_, _, _)
LimitWarningsFrom(lsr, ch, i) ==
  IF i > Len(LimitBits) THEN <<>>
  ELSE (IF Bit(lsr, LimitBits[i]) THEN <<Warn(ch, LimitText(LimitBits[i]))>> ELSE <<>>)
       \o LimitWarningsFrom(lsr, ch, i + 1)

LimitWarnings(lsr, ch) == LimitWarningsFrom(lsr, ch, 1)

LimitRangeError(lsr) ==
  Raised("CPX400DPError", "Unknown value for limit event register: " \o ToString(lsr))

\* _process_execution_error: the messages table; a code outside it is a KeyError.
EerCodes == (0 .. 9) \cup (100 .. 104) \cup {200}

messages(eer) ==
  CASE eer = 0 -> "0: No error encountered"
    [] eer \in 1 .. 7 -> ToString(eer) \o ": Internal hardware error"
    [] eer = 8 -> "8:Internal hardware error"
    [] eer = 9 -> "9: Internal hardware error"
    [] eer = 100 -> "100: Range error. Input value invlaid"
    [] eer = 101 -> "101: Corrupted setup date"
    [] eer = 102 -> "102: Missing setup data"
    [] eer = 103 -> "103: No second output"
    [] eer = 104 -> "104: Command not valid with output on"
    [] eer = 200 -> "200: Read only, interface is locked"
    [] OTHER -> ""

ProcessExecutionErrorGeneric(eer) == Raised("CPX400DPError", "Execution error")

ProcessExecutionError(eer) ==
  IF eer \in EerCodes THEN Raised("CPX400DPError", messages(eer))
  ELSE Raised("KeyError", ToString(eer))

(***************************************************************************)
(* Control transfer between frames.                                        *)
(***************************************************************************)
\* (an exception that leaves only the frame that raised it)
RaiseSwallowed(t, exc) ==
  /\ stack' = [stack EXCEPT ![t] = Pop(@)]
  /\ outcome' = IF Len(stack[t]) = 1 THEN [outcome EXCEPT ![t] = exc] ELSE outcome
  /\ ret' = [ret EXCEPT ![t] = NoLine]

\* (an exception that is logged where it is raised: the frames below go on)
RaiseLeavesFrames(t, exc) ==
  /\ stack' = [stack EXCEPT ![t] = Pop(@)]
  /\ outcome' = [outcome EXCEPT ![t] = exc]
  /\ ret' = [ret EXCEPT ![t] = NoLine]

\* An exception leaves every frame of the caller: the only except clause of
\* the driver wraps the _read call of query, which QueryRead models.
Raise(t, exc) ==
  /\ stack' = [stack EXCEPT ![t] = <<>>]
  /\ outcome' = [outcome EXCEPT ![t] = exc]
  /\ ret' = ret

\* The top frame calls callee and continues at contPc when it returns.
Invoke(t, contPc, callee) ==
  IF Len(stack[t]) >= RecursionLimit
  THEN Raise(t, Raised("RecursionError", "maximum recursion depth exceeded"))
  ELSE /\ stack' = [stack EXCEPT ![t] = Append(SetPc(@, contPc), callee)]
       /\ outcome' = outcome
       /\ ret' = ret

\* The top frame moves on to pc.
Goto(t, pc) ==
  /\ stack' = [stack EXCEPT ![t] = SetPc(@, pc)]
  /\ outcome' = outcome
  /\ ret' = ret

\* The top frame returns line to its caller (to the user, from the bottom frame).
Return(t, line) ==
  /\ stack' = [stack EXCEPT ![t] = Pop(@)]
  /\ ret' = [ret EXCEPT ![t] = line]
  /\ outcome' = IF Len(stack[t]) = 1
                THEN [outcome EXCEPT ![t] = Returned(line)]
                ELSE outcome

At(t, fn, pc) ==
  /\ stack[t] # <<>>
  /\ Top(t).fn = fn
  /\ Top(t).pc = pc

Log(t, ev) == io' = [io EXCEPT ![t] = Append(@, ev)]

\* if self.connection.in_waiting > 0: logger.warning(...). The look at the
\* port and the reset that follows it are two port operations: the reset is
\* the next statement of the caller.
FlushIfPending(t) ==
  IF inbuf # <<>>
  THEN /\ warnings' = [warnings EXCEPT ![t] = Append(@, FlushWarning)]
       /\ Goto(t, "reset")
  ELSE /\ UNCHANGED warnings
       /\ Goto(t, "write")

\* self.connection.reset_input_buffer(): whatever the buffer holds by now is
\* discarded
ResetInputBuffer(t) ==
  /\ inbuf' = <<>>
  /\ Log(t, Ev("flush", ""))

\* self._write(cmd + '\n'): the device receives cmd and queues its reply.
Write(t, cmd) ==
  /\ inbuf' = inbuf \o Reply(cmd)
  /\ dev' = Received(cmd)
  /\ Log(t, Ev("write", cmd))

CheckFrame == Frame("_check_status", "flush", "", 0)
QueryFrame(cmd) == Frame("query", "flush", cmd, 0)

(***************************************************************************)
(* The operations of the driver, one transport operation or one branch at  *)
(* a time.                                                                 *)
(***************************************************************************)
\* The record of a top-level call, and the record of the call before it.
NoPrev == [op |-> "", cmd |-> "", ch |-> 0, arg |-> 0, out |-> Pending]
CallOf(op, cmd, ch, arg, prev) ==
  [op |-> op, cmd |-> cmd, ch |-> ch, arg |-> arg, prev |-> prev]
NoCall == CallOf("", "", 0, 0, NoPrev)

\* A caller starts send(cmd) or query(cmd).
Call(t, op, cmd) ==
  /\ stack[t] = <<>>
  /\ calls[t] < MaxCalls
  /\ stack' = [stack EXCEPT ![t] =
                 <<Frame(op, IF op = "send" THEN "write" ELSE "flush", cmd, 0)>>]
  /\ calls' = [calls EXCEPT ![t] = @ + 1]
  /\ call' = [call EXCEPT ![t] = CallOf(op, cmd, 0, 0, NoPrev)]
  /\ outcome' = [outcome EXCEPT ![t] = Pending]
  /\ io' = [io EXCEPT ![t] = <<>>]
  /\ warnings' = [warnings EXCEPT ![t] = <<>>]
  /\ UNCHANGED <<dev, inbuf, ret>>
  /\ UNCHANGED <<lifeVars, sdVars, scVars>>

\* send, after the write: self._check_status()
SendAfterWriteNoCheck(t) == Return(t, NoLine)

SendAfterWrite(t) == Invoke(t, "checked", CheckFrame)

\* send: self._write(cmd+'\n'), then self._check_status()
SendWrite(t) ==
  /\ At(t, "send", "write")
  /\ Write(t, Top(t).cmd)
  /\ SendAfterWrite(t)
  /\ UNCHANGED <<warnings, calls, call>>
  /\ UNCHANGED <<lifeVars, sdVars, scVars>>

SendReturn(t) ==
  /\ At(t, "send", "checked")
  /\ Return(t, NoLine)
  /\ UNCHANGED <<dev, inbuf, io, warnings, calls, call>>
  /\ UNCHANGED <<lifeVars, sdVars, scVars>>

\* query: if self.connection.in_waiting > 0: warn
QueryFlush(t) ==
  /\ At(t, "query", "flush")
  /\ FlushIfPending(t)
  /\ UNCHANGED <<dev, inbuf, io, calls, call>>
  /\ UNCHANGED <<lifeVars, sdVars, scVars>>

\* query: self.connection.reset_input_buffer(), in the if
QueryReset(t) ==
  /\ At(t, "query", "reset")
  /\ ResetInputBuffer(t)
  /\ Goto(t, "write")
  /\ UNCHANGED <<dev, warnings, calls, call>>
  /\ UNCHANGED <<lifeVars, sdVars, scVars>>

\* query: self._write(cmd+'\n')
QueryWrite(t) ==
  /\ At(t, "query", "write")
  /\ Write(t, Top(t).cmd)
  /\ Goto(t, "read")
  /\ UNCHANGED <<warnings, calls, call>>
  /\ UNCHANGED <<lifeVars, sdVars, scVars>>

\* query, in the except clause: self._check_status(), then raise e
QueryOnTimeoutNoCheck(t) == Raise(t, ReadTimeout)

QueryOnTimeout(t) == Invoke(t, "timeout_checked", CheckFrame)

\* query: response = self._read(); on TimeoutError call self._check_status(),
\* otherwise return the response.
QueryRead(t) ==
  /\ At(t, "query", "read")
  /\ IF inbuf = <<>>
     THEN /\ Log(t, Ev("timeout", Top(t).cmd))
          /\ QueryOnTimeout(t)
          /\ UNCHANGED inbuf
     ELSE /\ Log(t, Ev("read", Head(inbuf).src))
          /\ inbuf' = Tail(inbuf)
          /\ Return(t, Head(inbuf))
  /\ UNCHANGED <<dev, warnings, calls, call>>
  /\ UNCHANGED <<lifeVars, sdVars, scVars>>

\* query: raise e, after the status check of the except clause has returned
QueryReraise(t) ==
  /\ At(t, "query", "timeout_checked")
  /\ Raise(t, ReadTimeout)
  /\ UNCHANGED <<dev, inbuf, io, warnings, calls, call>>
  /\ UNCHANGED <<lifeVars, sdVars, scVars>>

\* _check_status: if self.connection.in_waiting > 0: warn
CheckFlush(t) ==
  /\ At(t, "_check_status", "flush")
  /\ FlushIfPending(t)
  /\ UNCHANGED <<dev, inbuf, io, calls, call>>
  /\ UNCHANGED <<lifeVars, sdVars, scVars>>

\* _check_status: self.connection.reset_input_buffer(), in the if
CheckReset(t) ==
  /\ At(t, "_check_status", "reset")
  /\ ResetInputBuffer(t)
  /\ Goto(t, "write")
  /\ UNCHANGED <<dev, warnings, calls, call>>
  /\ UNCHANGED <<lifeVars, sdVars, scVars>>

\* _check_status: self._write('*STB?'+'\n')
CheckWrite(t) ==
  /\ At(t, "_check_status", "write")
  /\ Write(t, "*STB?")
  /\ Goto(t, "read")
  /\ UNCHANGED <<warnings, calls, call>>
  /\ UNCHANGED <<lifeVars, sdVars, scVars>>

\* _check_status: stb = int(self._read()); self._process_status_byte_register(stb)
CheckRead(t) ==
  /\ At(t, "_check_status", "read")
  /\ IF inbuf = <<>>
     THEN /\ Log(t, Ev("timeout", "*STB?"))
          /\ Raise(t, ReadTimeout)
          /\ UNCHANGED inbuf
     ELSE /\ Log(t, Ev("read", Head(inbuf).src))
          /\ inbuf' = Tail(inbuf)
          /\ IF IsInt(Head(inbuf))
             THEN Invoke(t, "processed",
                         Frame("_process_status_byte_register", "enter", "",
                               IntOf(Head(inbuf))))
             ELSE Raise(t, NotAnInt)
  /\ UNCHANGED <<dev, warnings, calls, call>>
  /\ UNCHANGED <<lifeVars, sdVars, scVars>>

CheckReturn(t) ==
  /\ At(t, "_check_status", "processed")
  /\ Return(t, NoLine)
  /\ UNCHANGED <<dev, inbuf, io, warnings, calls, call>>
  /\ UNCHANGED <<lifeVars, sdVars, scVars>>

(***************************************************************************)
(* _process_status_byte_register and _process_event_status_register.       *)
(***************************************************************************)
\* Where _process_status_byte_register continues once the branch whose result
\* arrives at pc has been handled: the bits are tested by independent ifs,
\* so the next test follows.
PsbAfterTakenExclusive(pc) == "done"

PsbAfterTaken(pc) ==
  CASE pc = "lsr1" -> "bit1"
    [] pc = "lsr2" -> "bit5"
    [] OTHER -> "done"

\* if 0 <= stb <= 255: ... else: raise CPX400DPError
PsbEnter(t) ==
  /\ At(t, "_process_status_byte_register", "enter")
  /\ IF InRange(Top(t).reg)
     THEN Goto(t, "bit0")
     ELSE Raise(t, Raised("CPX400DPError",
                          "Unknown value for status byte register: "
                            \o ToString(Top(t).reg)))
  /\ UNCHANGED <<dev, inbuf, io, warnings, calls, call>>
  /\ UNCHANGED <<lifeVars, sdVars, scVars>>

\* if stb & 0x1: lsr = int(self.query('LSR1?'))
PsbBit0(t) ==
  /\ At(t, "_process_status_byte_register", "bit0")
  /\ IF Bit(Top(t).reg, 0)
     THEN Invoke(t, "lsr1", QueryFrame("LSR1?"))
     ELSE Goto(t, "bit1")
  /\ UNCHANGED <<dev, inbuf, io, warnings, calls, call>>
  /\ UNCHANGED <<lifeVars, sdVars, scVars>>

\* if stb & 0x2: lsr = int(self.query('LSR2?'))
PsbBit1(t) ==
  /\ At(t, "_process_status_byte_register", "bit1")
  /\ IF Bit(Top(t).reg, 1)
     THEN Invoke(t, "lsr2", QueryFrame("LSR2?"))
     ELSE Goto(t, "bit5")
  /\ UNCHANGED <<dev, inbuf, io, warnings, calls, call>>
  /\ UNCHANGED <<lifeVars, sdVars, scVars>>

\* self._process_limit_event_register(lsr, ch), with the reply of LSR<ch>?
PsbLsr(t, ch) ==
  /\ At(t, "_process_status_byte_register", IF ch = 1 THEN "lsr1" ELSE "lsr2")
  /\ IF ~IsInt(ret[t])
     THEN Raise(t, NotAnInt) /\ UNCHANGED warnings
     ELSE IF ~InRange(IntOf(ret[t]))
     THEN Raise(t, LimitRangeError(IntOf(ret[t]))) /\ UNCHANGED warnings
     ELSE /\ warnings' = [warnings EXCEPT ![t] = @ \o LimitWarnings(IntOf(ret[t]), ch)]
          /\ Goto(t, PsbAfterTaken(Top(t).pc))
  /\ UNCHANGED <<dev, inbuf, io, calls, call>>
  /\ UNCHANGED <<lifeVars, sdVars, scVars>>

\* if stb & 0x20: esr = int(self.query('*ESR?'))
PsbBit5(t) ==
  /\ At(t, "_process_status_byte_register", "bit5")
  /\ IF Bit(Top(t).reg, 5)
     THEN Invoke(t, "esr", QueryFrame("*ESR?"))
     ELSE Goto(t, "done")
  /\ UNCHANGED <<dev, inbuf, io, warnings, calls, call>>
  /\ UNCHANGED <<lifeVars, sdVars, scVars>>

\* self._process_event_status_register(esr), with the reply of *ESR?
PsbEsr(t) ==
  /\ At(t, "_process_status_byte_register", "esr")
  /\ IF ~IsInt(ret[t])
     THEN Raise(t, NotAnInt)
     ELSE Invoke(t, "esr_done",
                 Frame("_process_event_status_register", "enter", "", IntOf(ret[t])))
  /\ UNCHANGED <<dev, inbuf, io, warnings, calls, call>>
  /\ UNCHANGED <<lifeVars, sdVars, scVars>>

\* logging.warning(f'EVENT STATUS: {...}'), with the None the decoder returned
PsbEsrDone(t) ==
  /\ At(t, "_process_status_byte_register", "esr_done")
  /\ warnings' = [warnings EXCEPT ![t] = Append(@, Warn(0, "EVENT STATUS: None"))]
  /\ Goto(t, PsbAfterTaken(Top(t).pc))
  /\ UNCHANGED <<dev, inbuf, io, calls, call>>
  /\ UNCHANGED <<lifeVars, sdVars, scVars>>

PsbReturn(t) ==
  /\ At(t, "_process_status_byte_register", "done")
  /\ Return(t, NoLine)
  /\ UNCHANGED <<dev, inbuf, io, warnings, calls, call>>
  /\ UNCHANGED <<lifeVars, sdVars, scVars>>

\* _process_event_status_register: the branch its chain of ifs takes first.
\* The range test comes first, then bits 2, 3, 4 and 5 are tested in that
\* order; every taken branch raises (bit 4: after EER? is decoded), so the
\* first set bit decides. Bits 0, 1, 6 and 7 do nothing.
EsrBranchParseFirst(esr) ==
  IF ~InRange(esr) THEN "range"
  ELSE IF Bit(esr, 5) THEN "parse"
  ELSE IF Bit(esr, 4) THEN "eer"
  ELSE IF Bit(esr, 3) THEN "verify"
  ELSE IF Bit(esr, 2) THEN "query"
  ELSE "none"

EsrBranchNoVerify(esr) ==
  IF ~InRange(esr) THEN "range"
  ELSE IF Bit(esr, 2) THEN "query"
  ELSE IF Bit(esr, 4) THEN "eer"
  ELSE IF Bit(esr, 5) THEN "parse"
  ELSE "none"

EsrBranch(esr) ==
  IF ~InRange(esr) THEN "range"
  ELSE IF Bit(esr, 2) THEN "query"
  ELSE IF Bit(esr, 3) THEN "verify"
  ELSE IF Bit(esr, 4) THEN "eer"
  ELSE IF Bit(esr, 5) THEN "parse"
  ELSE "none"

QueryError == Raised("CPX400DPError", "Query error: (documentation seems incomplete)")
VerifyTimeoutError == Raised("CPX400DPError", "Verify timeout error")
CommandParsingError == Raised("CPX400DPError", "Command parsing error")

\* _process_event_status_register up to its first raise, call or return
PesrEnter(t) ==
  /\ At(t, "_process_event_status_register", "enter")
  /\ LET esr == Top(t).reg
         branch == EsrBranch(esr) IN
     CASE branch = "range" -> Raise(t, LimitRangeError(esr))
       [] branch = "query" -> Raise(t, QueryError)
       [] branch = "verify" -> Raise(t, VerifyTimeoutError)
       [] branch = "eer" -> Invoke(t, "eer", QueryFrame("EER?"))
       [] branch = "parse" -> Raise(t, CommandParsingError)
       [] branch = "none" -> Return(t, NoLine)
  /\ UNCHANGED <<dev, inbuf, io, warnings, calls, call>>
  /\ UNCHANGED <<lifeVars, sdVars, scVars>>

\* eer = int(self.query('EER?')); self._process_execution_error(eer)
PesrEer(t) ==
  /\ At(t, "_process_event_status_register", "eer")
  /\ IF ~IsInt(ret[t])
     THEN Raise(t, NotAnInt)
     ELSE Raise(t, ProcessExecutionError(IntOf(ret[t])))
  /\ UNCHANGED <<dev, inbuf, io, warnings, calls, call>>
  /\ UNCHANGED <<lifeVars, sdVars, scVars>>

(***************************************************************************)
(* CPX400DPChannel: the accessors of channel n. Each forms one command and *)
(* hands it to send or query of the owning instrument.                     *)
(***************************************************************************)
Getters == {"voltage", "current", "voltage_setpoint", "current_setpoint",
            "ovp", "ocp", "on"}
Setters == {"voltage_setpoint=", "current_setpoint=", "ovp=", "ocp="}
Switches == {"output_on", "output_off"}
Accessors == Getters \cup Setters \cup Switches

\* (every accessor addressing channel 1)
CommandOfChannel1(acc, n, value) ==
  CASE acc = "voltage" -> "V1O?"
    [] acc = "current" -> "I1O?"
    [] acc = "voltage_setpoint" -> "V1?"
    [] acc = "voltage_setpoint=" -> "V1 " \o Fixed3(value)
    [] acc = "current_setpoint" -> "I1?"
    [] acc = "current_setpoint=" -> "I1 " \o Fixed3(value)
    [] acc = "ovp" -> "OVP1?"
    [] acc = "ovp=" -> "OVP1 " \o Fixed3(value)
    [] acc = "ocp" -> "OCP1?"
    [] acc = "ocp=" -> "OCP1 " \o Fixed3(value)
    [] acc = "on" -> "OP1?"
    [] acc = "output_on" -> "OP1 1"
    [] acc = "output_off" -> "OP1 0"

\* the command an accessor of channel n forms (value: the setter's argument)
Command(acc, n, value) ==
  CASE acc = "voltage" -> "V" \o ToString(n) \o "O?"
    [] acc = "current" -> "I" \o ToString(n) \o "O?"
    [] acc = "voltage_setpoint" -> "V" \o ToString(n) \o "?"
    [] acc = "voltage_setpoint=" -> "V" \o ToString(n) \o " " \o Fixed3(value)
    [] acc = "current_setpoint" -> "I" \o ToString(n) \o "?"
    [] acc = "current_setpoint=" -> "I" \o ToString(n) \o " " \o Fixed3(value)
    [] acc = "ovp" -> "OVP" \o ToString(n) \o "?"
    [] acc = "ovp=" -> "OVP" \o ToString(n) \o " " \o Fixed3(value)
    [] acc = "ocp" -> "OCP" \o ToString(n) \o "?"
    [] acc = "ocp=" -> "OCP" \o ToString(n) \o " " \o Fixed3(value)
    [] acc = "on" -> "OP" \o ToString(n) \o "?"
    [] acc = "output_on" -> "OP" \o ToString(n) \o " 1"
    [] acc = "output_off" -> "OP" \o ToString(n) \o " 0"

\* the values the getters return
FloatValue(v) == NumLine("float", v)
BoolValue(b) == NumLine("bool", IF b THEN 1 ELSE 0)
NotAFloat == Raised("ValueError", "could not convert string to float")
NoSuchField == Raised("IndexError", "list index out of range")

\* float(text), bool(int(text)): the value, or ValueError
FloatResult(text) == IF IsFloat(text) THEN Returned(FloatValue(FloatOf(text))) ELSE NotAFloat
BoolResult(text) ==
  IF IsIntText(text) THEN Returned(BoolValue(IntOfText(text) # 0)) ELSE NotAnInt

\* what a getter makes of the line query returned
Parse(acc, line) ==
  CASE acc = "voltage" -> FloatResult(Split(line, "V")[1])
    [] acc = "current" -> FloatResult(Split(line, "A")[1])
    [] acc = "on" ->
         IF Len(Split(line, " ")) < 2 THEN NoSuchField
         ELSE BoolResult(Split(line, " ")[2])
    [] OTHER ->
         IF Len(Split(line, " ")) < 2 THEN NoSuchField
         ELSE FloatResult(Split(line, " ")[2])

AtAccessor(t, pc) ==
  /\ stack[t] # <<>>
  /\ Top(t).fn \in Accessors
  /\ Top(t).pc = pc

\* A caller uses accessor acc of the channel the run is about, with the
\* value the run is about: the accessor forms its command.
Access(t, acc) ==
  /\ stack[t] = <<>>
  /\ calls[t] < MaxAccesses
  /\ obj[1] = "open"
  /\ LET n == call[t].ch
         value == call[t].arg
         cmd == Command(acc, n, value) IN
       /\ stack' = [stack EXCEPT ![t] = <<Frame(acc, "call", cmd, 0)>>]
       /\ call' = [call EXCEPT ![t] =
                     CallOf(acc, cmd, n, value,
                            [op |-> @.op, cmd |-> @.cmd, ch |-> @.ch, arg |-> @.arg,
                             out |-> outcome[t]])]
  /\ calls' = [calls EXCEPT ![t] = @ + 1]
  /\ outcome' = [outcome EXCEPT ![t] = Pending]
  /\ io' = [io EXCEPT ![t] = <<>>]
  /\ warnings' = [warnings EXCEPT ![t] = <<>>]
  /\ UNCHANGED <<dev, inbuf, ret>>
  /\ UNCHANGED <<lifeVars, sdVars, scVars>>

\* a getter: result = self.instrument.query(cmd);
\* a setter or switch: self.instrument.send(cmd)
AccCall(t) ==
  /\ AtAccessor(t, "call")
  /\ IF Top(t).fn \in Getters
     THEN Invoke(t, "parse", QueryFrame(Top(t).cmd))
     ELSE Invoke(t, "sent", Frame("send", "write", Top(t).cmd, 0))
  /\ UNCHANGED <<dev, inbuf, io, warnings, calls, call>>
  /\ UNCHANGED <<lifeVars, sdVars, scVars>>

\* a getter: split the line, convert the field, return the value
AccParse(t) ==
  /\ AtAccessor(t, "parse")
  /\ LET result == Parse(Top(t).fn, ret[t]) IN
       IF result.kind = "return" THEN Return(t, result.val) ELSE Raise(t, result)
  /\ UNCHANGED <<dev, inbuf, io, warnings, calls, call>>
  /\ UNCHANGED <<lifeVars, sdVars, scVars>>

\* a setter or switch returns None when send has returned
AccSent(t) ==
  /\ AtAccessor(t, "sent")
  /\ Return(t, NoLine)
  /\ UNCHANGED <<dev, inbuf, io, warnings, calls, call>>
  /\ UNCHANGED <<lifeVars, sdVars, scVars>>

\* The device's answer to the query the caller made last changes while the
\* caller is idle (the output settles, a limit is changed at the front
\* panel, the output is switched).
ChangedLine(line) ==
  [line EXCEPT !.parts =
     IF line.src \in {SetpointQuery("OP", n) : n \in Channels}
     THEN [@ EXCEPT ![2] = IF @ = "0" THEN "1" ELSE "0"]
     ELSE IF line.sep = " "
     THEN [@ EXCEPT ![2] = IF @ = "5.000" THEN "32.1" ELSE "5.000"]
     ELSE [@ EXCEPT ![1] = IF @ = "5.000" THEN "32.1" ELSE "5.000"]]

DeviceChange(t) ==
  /\ stack[t] = <<>>
  /\ call[t].op \in Getters
  /\ dev.changes < MaxChanges
  /\ dev' = [dev EXCEPT !.mem[call[t].cmd] = ChangedLine(@),
                        !.changes = @ + 1]
  /\ UNCHANGED <<inbuf, stack, ret, outcome, io, warnings, calls, call>>
  /\ UNCHANGED <<lifeVars, sdVars, scVars>>

(***************************************************************************)
(* The life cycle of an instrument object (_Instrument, CPX400DP).         *)
(*   obj:  "absent"  not constructed yet                                   *)
(*         "constructing"  CPX400DP.__init__ is running                    *)
(*         "failed"  the constructor raised                                *)
(*         "open"    constructed, no close() has completed since its port  *)
(*                   was last opened                                       *)
(*         "closed"  a close() has returned normally, and no later         *)
(*                   _open_concrete() has opened the port again            *)
(*         "dead"    finalized and deallocated                             *)
(*   conn: "unset" (the object has no connection attribute), "none"      *)
(*         (self.connection is None), "open", "closed" (the Serial object  *)
(*         after its close())                                              *)
(***************************************************************************)
Live == {"failed", "open", "closed"}
\* the states in which the program holds the object it constructed
Held == {"open", "closed"}

Min(a, b) == IF a < b THEN a ELSE b

\* the class attributes an instrument has before _get_identity has set them
\* (software_verison is the attribute _get_identity writes the fourth field to)
UnknownIdentity ==
  [manufacturer |-> "UNKNOWN", model_number |-> "UNKNOWN",
   serial_number |-> "UNKNOWN", software_version |-> "UNKNOWN",
   software_verison |-> ""]

\* _get_identity: identity = self.query('*IDN?').split(','), then one
\* attribute per field; the fourth field goes to software_verison.
IdentityFrom(id, fields) ==
  [id EXCEPT !.manufacturer = IF Len(fields) >= 1 THEN fields[1] ELSE @,
             !.model_number = IF Len(fields) >= 2 THEN fields[2] ELSE @,
             !.serial_number = IF Len(fields) >= 3 THEN fields[3] ELSE @,
             !.software_verison = IF Len(fields) >= 4 THEN fields[4] ELSE @]

\* _open: channel 1 is appended, then channel 2
OpenChannels == <<1, 2>>

\* _open_concrete: the registry after the add that precedes self._open()
Registered(i) == registry \cup {i}

\* the constructor has raised: the object lives on for as long as the
\* exception in flight refers to it (ctor records how the constructor ended:
\* "returned" or "raised")
ConstructRaises(i) ==
  /\ obj' = [obj EXCEPT ![i] = "failed"]
  /\ ctor' = [ctor EXCEPT ![i] = "raised"]

(***************************************************************************)
(* close(), one statement at a time. closing holds, for each thread and    *)
(* for the finalizer, the instrument whose close() it is inside, how the   *)
(* call was made (via "close", "exit" or "del") and the statement that     *)
(* comes next:                                                             *)
(*   "_close"        if self.connection is not None                        *)
(*   "reset_input"   self.connection.reset_input_buffer()                  *)
(*   "reset_output"  self.connection.reset_output_buffer()                 *)
(*   "close"         self.connection.close()                               *)
(*   "member"        if self in _Instrument._open_instruments              *)
(*   "remove"        _Instrument._open_instruments.remove(self)            *)
(* No statement of close or _close takes a lock.                           *)
(***************************************************************************)
\* the context the finalizers (__del__) run in
GC == 0
Closers == Callers \cup {GC}
NoClose == [inst |-> 0, pc |-> "idle", via |-> ""]

\* thread t is inside no call
Free(t) == closing[t] = NoClose /\ stack[t] = <<>>

\* a caller is inside _open_concrete() on the constructed instrument i
Reopening(i) ==
  i = 1 /\ \E t \in Callers : stack[t] # <<>> /\ stack[t][1].fn = "_open_concrete"

\* a thread is inside a close() of instrument i
InCall(i) == \E t \in Callers : closing[t].inst = i

AtClose(c, pc) == closing[c].pc = pc

\* reset_input_buffer() and reset_output_buffer() raise PortNotOpenError when
\* the port is closed already, and termios.error (tcflush) when the device
\* behind the open port is gone
CloseError(i) ==
  IF conn[i] = "closed" THEN "PortNotOpenError"
  ELSE IF conn[i] = "open" /\ dev.port = "lost" THEN "termios.error"
  ELSE "ok"

CloseRaises(i) == CloseError(i) # "ok"

\* (a removal that is made whether or not _close raised)
RegistryAfterCloseAlways(i) == registry \ {i}

\* _Instrument.close when self._close() has raised: the removal from the
\* registry, the statement after it, is not reached
RegistryAfterClose(i) == registry

\* close() is called on instrument i in context c
BeginClose(c, i, via) ==
  /\ closes' = [closes EXCEPT ![i] = Min(@ + 1, MaxCloses)]
  /\ lastClose' = [lastClose EXCEPT ![i] = "running"]
  /\ closing' = [closing EXCEPT ![c] = [inst |-> i, pc |-> "_close", via |-> via]]

\* The close() call of context c ends with result, leaving the registry reg.
\* After close() has returned the instrument is closed (an object whose
\* constructor is running or has raised stays what it is); __exit__ ends
\* the with statement; after __del__ (which ignores any exception) the object is
\* deallocated and the WeakSet no longer holds it.
EndClose(c, result, reg) ==
  LET i == closing[c].inst
      via == closing[c].via IN
    /\ lastClose' = [lastClose EXCEPT ![i] = result]
    /\ closing' = [closing EXCEPT ![c] = NoClose]
    /\ obj' = [obj EXCEPT ![i] = IF via = "del" THEN "dead"
                                 ELSE IF result = "ok" /\ @ \in Held THEN "closed"
                                 ELSE @]
    /\ inWith' = [inWith EXCEPT ![i] = IF via = "exit" THEN FALSE ELSE @]
    /\ registry' = IF via = "del" THEN reg \ {i} ELSE reg

\* the close() call of context c goes on to its next statement
CloseGoto(c, pc) ==
  /\ closing' = [closing EXCEPT ![c].pc = pc]
  /\ UNCHANGED <<lastClose, obj, inWith, registry>>

\* _close: if self.connection is not None (AttributeError when the
\* constructor never set the attribute)
CloseTest(c) ==
  /\ AtClose(c, "_close")
  /\ LET i == closing[c].inst IN
       CASE conn[i] = "unset" -> EndClose(c, "AttributeError", RegistryAfterClose(i))
         [] conn[i] = "none" -> CloseGoto(c, "member")
         [] OTHER -> CloseGoto(c, "reset_input")
  /\ UNCHANGED <<conn, refs, closes, touched, exitPath, channels, identity, ctor>>
  /\ UNCHANGED <<ioVars, sdVars, scVars>>

\* _close: self.connection.reset_input_buffer(): the unread lines are gone
\* (inbuf is the input buffer of instrument 1's port)
CloseResetInput(c) ==
  /\ AtClose(c, "reset_input")
  /\ LET i == closing[c].inst IN
       IF CloseRaises(i)
       THEN /\ EndClose(c, CloseError(i), RegistryAfterClose(i))
            /\ touched' = [touched EXCEPT ![i] = @ \/ conn[i] = "closed"]
            /\ UNCHANGED inbuf
       ELSE /\ CloseGoto(c, "reset_output")
            /\ inbuf' = IF i = 1 THEN <<>> ELSE inbuf
            /\ UNCHANGED touched
  /\ UNCHANGED <<conn, refs, closes, exitPath, channels, identity, ctor>>
  /\ UNCHANGED <<dev, stack, ret, outcome, io, warnings, calls, call>>
  /\ UNCHANGED <<sdVars, scVars>>

\* _close: self.connection.reset_output_buffer()
CloseResetOutput(c) ==
  /\ AtClose(c, "reset_output")
  /\ LET i == closing[c].inst IN
       IF CloseRaises(i)
       THEN /\ EndClose(c, CloseError(i), RegistryAfterClose(i))
            /\ touched' = [touched EXCEPT ![i] = @ \/ conn[i] = "closed"]
       ELSE /\ CloseGoto(c, "close")
            /\ UNCHANGED touched
  /\ UNCHANGED <<conn, refs, closes, exitPath, channels, identity, ctor>>
  /\ UNCHANGED <<ioVars, sdVars, scVars>>

\* _close: self.connection.close(); closing a Serial object that is closed
\* already does nothing
ClosePort(c) ==
  /\ AtClose(c, "close")
  /\ conn' = [conn EXCEPT ![closing[c].inst] = "closed"]
  /\ CloseGoto(c, "member")
  /\ UNCHANGED <<refs, closes, touched, exitPath, channels, identity, ctor>>
  /\ UNCHANGED <<ioVars, sdVars, scVars>>

\* close: if self in _Instrument._open_instruments
CloseMember(c) ==
  /\ AtClose(c, "member")
  /\ IF closing[c].inst \in registry
     THEN CloseGoto(c, "remove")
     ELSE EndClose(c, "ok", registry)
  /\ UNCHANGED <<conn, refs, closes, touched, exitPath, channels, identity, ctor>>
  /\ UNCHANGED <<ioVars, sdVars, scVars>>

\* close: _Instrument._open_instruments.remove(self), KeyError when another
\* close has removed the instrument since the test
CloseRemove(c) ==
  /\ AtClose(c, "remove")
  /\ LET i == closing[c].inst IN
       IF i \in registry
       THEN EndClose(c, "ok", registry \ {i})
       ELSE EndClose(c, "KeyError", registry)
  /\ UNCHANGED <<conn, refs, closes, touched, exitPath, channels, identity, ctor>>
  /\ UNCHANGED <<ioVars, sdVars, scVars>>

\* the statements of the close() call context c is inside
CloseStep(c) ==
  \/ CloseTest(c)
  \/ CloseResetInput(c)
  \/ CloseResetOutput(c)
  \/ ClosePort(c)
  \/ CloseMember(c)
  \/ CloseRemove(c)

\* instrument.close() by thread t, a holder of a reference
Close(t, i) ==
  /\ obj[i] \in Held
  /\ refs[i] > 0
  /\ closes[i] < MaxCloses
  /\ Free(t)
  /\ BeginClose(t, i, "close")
  /\ UNCHANGED <<registry, obj, conn, refs, inWith, touched, exitPath, channels,
                 identity, ctor>>
  /\ UNCHANGED <<ioVars, sdVars, scVars>>

\* instrument.close() by thread t on an instrument it took from
\* _Instrument._open_instruments: the object is in the set from _open_concrete
\* on, before _open runs, so this close can come while the constructor is
\* running in another thread, or after the constructor has raised
CloseRegistered(t, i) ==
  /\ i \in registry
  /\ obj[i] \in {"constructing", "failed"}
  /\ refs[i] > 0
  /\ closes[i] < MaxCloses
  /\ Free(t)
  /\ BeginClose(t, i, "close")
  /\ UNCHANGED <<registry, obj, conn, refs, inWith, touched, exitPath, channels,
                 identity, ctor>>
  /\ UNCHANGED <<ioVars, sdVars, scVars>>

\* __enter__: return self
Enter(i) ==
  /\ obj[i] \in Held
  /\ refs[i] > 0
  /\ ~inWith[i]
  /\ inWith' = [inWith EXCEPT ![i] = TRUE]
  /\ exitPath' = [exitPath EXCEPT ![i] = "none"]
  /\ UNCHANGED <<registry, obj, conn, refs, closes, lastClose, touched>>
  /\ UNCHANGED <<channels, identity, closing, ctor>>
  /\ UNCHANGED <<ioVars, sdVars, scVars>>

\* the with statement on instrument i is running its __exit__
InExit(i) == \E t \in Callers : closing[t].inst = i /\ closing[t].via = "exit"

\* Thread t leaves the body of the with-block, normally or by an exception:
\* __exit__(exc_type, exc_value, traceback) calls self.close() whatever the
\* path, and the with statement ends when it has ended.
Exit(t, i, path) ==
  /\ inWith[i]
  /\ ~InExit(i)
  /\ Free(t)
  /\ exitPath' = [exitPath EXCEPT ![i] = path]
  /\ BeginClose(t, i, "exit")
  /\ UNCHANGED inWith
  /\ UNCHANGED <<registry, obj, conn, refs, touched, channels, identity, ctor>>
  /\ UNCHANGED <<ioVars, sdVars, scVars>>

\* Another strong reference to the object is made.
AddRef(i) ==
  /\ obj[i] \in Held
  /\ refs[i] > 0
  /\ refs[i] < MaxRefs
  /\ refs' = [refs EXCEPT ![i] = @ + 1]
  /\ UNCHANGED <<registry, obj, conn, inWith, closes, lastClose, touched, exitPath>>
  /\ UNCHANGED <<channels, identity, closing, ctor>>
  /\ UNCHANGED <<ioVars, sdVars, scVars>>

\* A strong reference is dropped (del, a name leaving scope, the exception of
\* a failed construction being discarded); the with statement keeps one, and
\* so does a call of close() or of _open_concrete() in progress.
DropRef(i) ==
  /\ obj[i] \in Live
  /\ refs[i] > (IF inWith[i] \/ InCall(i) \/ Reopening(i) THEN 1 ELSE 0)
  /\ refs' = [refs EXCEPT ![i] = @ - 1]
  /\ UNCHANGED <<registry, obj, conn, inWith, closes, lastClose, touched, exitPath>>
  /\ UNCHANGED <<channels, identity, closing, ctor>>
  /\ UNCHANGED <<ioVars, sdVars, scVars>>

\* _open_instruments is a weakref.WeakSet: membership is no strong reference.
Collectable(i) == refs[i] = 0

\* __del__: self.close(), run by the finalizer once no strong reference is
\* left. An instrument with a channel is in a reference cycle with it
\* (channel._instrument), so the cyclic collector frees it, and that clears
\* the weak references to the object, the WeakSet's entry included, before
\* it calls __del__. An instrument without a channel is freed by its
\* reference count: __del__ runs first and the entry goes with the object.
Finalize(i) ==
  /\ obj[i] \in Live
  /\ Collectable(i)
  /\ closing[GC] = NoClose
  /\ BeginClose(GC, i, "del")
  /\ registry' = IF channels[i] # <<>> THEN registry \ {i} ELSE registry
  /\ UNCHANGED <<obj, conn, refs, inWith, touched, exitPath, channels,
                 identity, ctor>>
  /\ UNCHANGED <<ioVars, sdVars, scVars>>

(***************************************************************************)
(* CPX400DP(name, location), one statement at a time, for instrument 1.    *)
(* Until the constructor has returned the object is "constructing"; when   *)
(* the constructor raised, it stays so, with the exception as the outcome. *)
(***************************************************************************)
\* (a read-back that is not compared)
ReadBackUnchecked(v) == TRUE

\* assert int(self.query(...)) == 255
ReadBackOk(v) == v = RegMax

AssertionFailed == Raised("AssertionError", "")
SerialFailed == Raised("SerialException", "could not open port")

\* f'LSE{self.index} 255' and f'LSE{self.index}?'
LseSet(n) == "LSE" \o ToString(n) \o " 255"
LseQuery(n) == "LSE" \o ToString(n) \o "?"

\* ch1 .. ch4: the channel at position N, or AttributeError
ChAccessor(chs, N) ==
  IF Len(chs) >= N THEN Returned(NumLine("channel", chs[N]))
  ELSE Raised("AttributeError", "does not have a ch" \o ToString(N))

\* caller t is inside CPX400DP(...) or inside a later _open_concrete() at pc
InOpen(t, pc) ==
  /\ stack[t] # <<>>
  /\ Top(t).fn \in {"__init__", "_open_concrete"}
  /\ Top(t).pc = pc

\* A holder of the constructed instrument, open or closed, calls
\* _open_concrete() on it: the statements that follow are those the
\* constructor runs from the registry add to the end of _open.
OpenConcrete(t) ==
  /\ Free(t)
  /\ obj[1] \in Held
  /\ refs[1] > 0
  /\ calls[t] < MaxOpens
  /\ stack' = [stack EXCEPT ![t] = <<Frame("_open_concrete", "register", "", 0)>>]
  /\ call' = [call EXCEPT ![t] = CallOf("_open_concrete", "", 0, 0, NoPrev)]
  /\ outcome' = [outcome EXCEPT ![t] = Pending]
  /\ io' = [io EXCEPT ![t] = <<>>]
  /\ warnings' = [warnings EXCEPT ![t] = <<>>]
  /\ calls' = [calls EXCEPT ![t] = @ + 1]
  /\ UNCHANGED <<dev, inbuf, ret>>
  /\ UNCHANGED <<lifeVars, sdVars, scVars>>

\* A caller constructs the instrument.
ConstructCall(t) ==
  /\ stack[t] = <<>>
  /\ obj[1] = "absent"
  /\ stack' = [stack EXCEPT ![t] = <<Frame("__init__", "exists", "", 0)>>]
  /\ calls' = [calls EXCEPT ![t] = @ + 1]
  /\ call' = [call EXCEPT ![t] = CallOf("__init__", "", 0, 0, NoPrev)]
  /\ outcome' = [outcome EXCEPT ![t] = Pending]
  /\ io' = [io EXCEPT ![t] = <<>>]
  /\ warnings' = [warnings EXCEPT ![t] = <<>>]
  /\ obj' = [obj EXCEPT ![1] = "constructing"]
  /\ refs' = [refs EXCEPT ![1] = 1]
  /\ UNCHANGED <<dev, inbuf, ret>>
  /\ UNCHANGED <<registry, conn, inWith, closes, lastClose, touched, exitPath,
                 channels, identity, closing, ctor>>
  /\ UNCHANGED <<sdVars, scVars>>

\* assert os.path.exists(self._location); self.connection = None: when the
\* assert raises, the object is left without a connection attribute
InitExists(t) ==
  /\ At(t, "__init__", "exists")
  /\ IF dev.port = "missing"
     THEN Raise(t, AssertionFailed) /\ conn' = [conn EXCEPT ![1] = "unset"]
     ELSE Goto(t, "register") /\ UNCHANGED conn
  /\ UNCHANGED <<dev, inbuf, io, warnings, calls, call>>
  /\ UNCHANGED <<registry, obj, refs, inWith, closes, lastClose, touched, exitPath,
                 channels, identity, closing, ctor>>
  /\ UNCHANGED <<sdVars, scVars>>

\* the constructor: self._channels = [], then _Instrument.__init__ calls
\* _open_concrete; _open_concrete: the object is added to the registry
InitRegister(t) ==
  /\ InOpen(t, "register")
  /\ registry' = Registered(1)
  /\ channels' = [channels EXCEPT ![1] = IF Top(t).fn = "__init__" THEN <<>> ELSE @]
  /\ Goto(t, "serial")
  /\ UNCHANGED <<dev, inbuf, io, warnings, calls, call>>
  /\ UNCHANGED <<obj, conn, refs, inWith, closes, lastClose, touched, exitPath, identity,
                 closing, ctor>>
  /\ UNCHANGED <<sdVars, scVars>>

\* _open: self.connection = serial.Serial(...), which raises when the port
\* cannot be opened (it is taken, or the device behind the path is gone); in
\* a later _open_concrete() it gives the registered instrument an open port
\* again
InitSerial(t) ==
  /\ InOpen(t, "serial")
  /\ IF dev.port \in {"busy", "lost"}
     THEN Raise(t, SerialFailed) /\ UNCHANGED <<conn, obj>>
     ELSE /\ conn' = [conn EXCEPT ![1] = "open"]
          /\ obj' = [obj EXCEPT ![1] = IF Top(t).fn = "_open_concrete" THEN "open" ELSE @]
          /\ stack' = [stack EXCEPT ![t] = <<Frame(Top(t).fn, "ch_send", "", 1)>>]
          /\ UNCHANGED <<outcome, ret>>
  /\ UNCHANGED <<dev, inbuf, io, warnings, calls, call>>
  /\ UNCHANGED <<registry, refs, inWith, closes, lastClose, touched, exitPath,
                 channels, identity, closing, ctor>>
  /\ UNCHANGED <<sdVars, scVars>>

\* CPX400DPChannel.__init__: self.instrument.send(f'LSE{self.index} 255')
InitChannelSend(t) ==
  /\ InOpen(t, "ch_send")
  /\ Invoke(t, "ch_query", Frame("send", "write", LseSet(OpenChannels[Top(t).reg]), 0))
  /\ UNCHANGED <<dev, inbuf, io, warnings, calls, call>>
  /\ UNCHANGED <<lifeVars, sdVars, scVars>>

\* CPX400DPChannel.__init__: self.instrument.query(f'LSE{self.index}?')
InitChannelQuery(t) ==
  /\ InOpen(t, "ch_query")
  /\ Invoke(t, "ch_assert", QueryFrame(LseQuery(OpenChannels[Top(t).reg])))
  /\ UNCHANGED <<dev, inbuf, io, warnings, calls, call>>
  /\ UNCHANGED <<lifeVars, sdVars, scVars>>

\* assert int(...) == 255, then self._channels.append(the channel); the
\* next channel; after the last one _open has ended: the constructor goes
\* on to _get_identity, a later _open_concrete() returns
InitChannelAssert(t) ==
  /\ InOpen(t, "ch_assert")
  /\ IF ~IsInt(ret[t]) THEN Raise(t, NotAnInt) /\ UNCHANGED channels
     ELSE IF ~ReadBackOk(IntOf(ret[t]))
     THEN Raise(t, AssertionFailed) /\ UNCHANGED channels
     ELSE /\ channels' = [channels EXCEPT ![1] = Append(@, OpenChannels[Top(t).reg])]
          /\ IF Top(t).reg < Len(OpenChannels)
             THEN /\ stack' = [stack EXCEPT ![t] =
                                 <<Frame(Top(t).fn, "ch_send", "", Top(t).reg + 1)>>]
                  /\ UNCHANGED <<outcome, ret>>
             ELSE IF Top(t).fn = "__init__"
             THEN /\ stack' = [stack EXCEPT ![t] = <<Frame("__init__", "identity", "", 0)>>]
                  /\ UNCHANGED <<outcome, ret>>
             ELSE Return(t, NoLine)
  /\ UNCHANGED <<dev, inbuf, io, warnings, calls, call>>
  /\ UNCHANGED <<registry, obj, conn, refs, inWith, closes, lastClose, touched,
                 exitPath, identity, closing, ctor>>
  /\ UNCHANGED <<sdVars, scVars>>

\* _get_identity: self.query('*IDN?')
InitIdentity(t) ==
  /\ At(t, "__init__", "identity")
  /\ Invoke(t, "identity_set", QueryFrame("*IDN?"))
  /\ UNCHANGED <<dev, inbuf, io, warnings, calls, call>>
  /\ UNCHANGED <<lifeVars, sdVars, scVars>>

\* _get_identity: .split(','), then the four assignments; IndexError at the
\* first field that is missing
InitIdentitySet(t) ==
  /\ At(t, "__init__", "identity_set")
  /\ identity' = [identity EXCEPT ![1] = IdentityFrom(@, Split(ret[t], ","))]
  /\ IF Len(Split(ret[t], ",")) < 4
     THEN Raise(t, NoSuchField)
     ELSE /\ stack' = [stack EXCEPT ![t] = <<Frame("__init__", "en_send", "*SRE", 0)>>]
          /\ UNCHANGED <<outcome, ret>>
  /\ UNCHANGED <<dev, inbuf, io, warnings, calls, call>>
  /\ UNCHANGED <<registry, obj, conn, refs, inWith, closes, lastClose, touched,
                 exitPath, channels, closing, ctor>>
  /\ UNCHANGED <<sdVars, scVars>>

\* self.send('*SRE 255'), self.send('*ESE 255')
InitEnableSend(t) ==
  /\ At(t, "__init__", "en_send")
  /\ Invoke(t, "en_query", Frame("send", "write", Top(t).cmd \o " 255", 0))
  /\ UNCHANGED <<dev, inbuf, io, warnings, calls, call>>
  /\ UNCHANGED <<lifeVars, sdVars, scVars>>

\* self.query('*SRE?'), self.query('*ESE?')
InitEnableQuery(t) ==
  /\ At(t, "__init__", "en_query")
  /\ Invoke(t, "en_assert", QueryFrame(Top(t).cmd \o "?"))
  /\ UNCHANGED <<dev, inbuf, io, warnings, calls, call>>
  /\ UNCHANGED <<lifeVars, sdVars, scVars>>

\* assert int(...) == 255; after *SRE comes *ESE, after *ESE the constructor
\* returns
InitEnableAssert(t) ==
  /\ At(t, "__init__", "en_assert")
  /\ IF ~IsInt(ret[t]) THEN Raise(t, NotAnInt) /\ UNCHANGED obj
     ELSE IF ~ReadBackOk(IntOf(ret[t])) THEN Raise(t, AssertionFailed) /\ UNCHANGED obj
     ELSE IF Top(t).cmd = "*SRE"
     THEN /\ stack' = [stack EXCEPT ![t] = <<Frame("__init__", "en_send", "*ESE", 0)>>]
          /\ UNCHANGED <<outcome, ret, obj>>
     ELSE /\ Return(t, NoLine)
          /\ obj' = [obj EXCEPT ![1] = "open"]
  /\ ctor' = [ctor EXCEPT ![1] = IF obj'[1] = "open" THEN "returned" ELSE @]
  /\ UNCHANGED <<dev, inbuf, io, warnings, calls, call>>
  /\ UNCHANGED <<registry, conn, refs, inWith, closes, lastClose, touched,
                 exitPath, channels, identity, closing>>
  /\ UNCHANGED <<sdVars, scVars>>

\* A caller reads ch1, ch2, ch3 or ch4 of the open instrument.
ChN(t, N) ==
  /\ stack[t] = <<>>
  /\ obj[1] = "open"
  /\ call' = [call EXCEPT ![t] = CallOf("ch", "", N, 0, NoPrev)]
  /\ outcome' = [outcome EXCEPT ![t] = ChAccessor(channels[1], N)]
  /\ UNCHANGED <<dev, inbuf, stack, ret, io, warnings, calls>>
  /\ UNCHANGED <<lifeVars, sdVars, scVars>>

(***************************************************************************)
(* SIGINT_protected(close_items, timeout): the wrapper around func, one    *)
(* statement at a time. Signals are delivered between statements.         *)
(*   hook: "func"      func is running (line 36)                           *)
(*         "getsignal" the KeyboardInterrupt was caught (line 38 is next)  *)
(*         "ignore"    line 39 is next                                     *)
(*         "sigalrm"   line 45 is next                                     *)
(*         "alarm"     line 46 is next                                     *)
(*         "list"      line 48 is next: list(close_items)                  *)
(*         "loop"      the for loop is between two items                   *)
(*         "closing"   inside a close() that does not return               *)
(*         "restore"   line 51 is next                                     *)
(*         "cancel"    line 52 is next                                     *)
(*         "return"    signal.alarm(0) has returned, the return is next    *)
(*         "done"      SIGINT_protected_func has returned                  *)
(*         "raised"    an exception has left SIGINT_protected_func         *)
(***************************************************************************)
Items == 1 .. MaxItems
CloseBehaviours == {"ok", "raise", "hang"}
\* the timeouts the wrapper is given: any number of seconds, which it hands
\* to signal.alarm unchecked (signal.alarm(0) schedules no alarm)
Timeouts == 0 .. MaxTimeout
\* signal.default_int_handler, or a handler of the application that returns
OriginalHandlers == {"default_int_handler", "custom"}

HookEnded == hook \in {"done", "raised"}

\* list(close_items): the items in the iteration order of the collection
Orders(S) ==
  {s \in [1 .. Cardinality(S) -> S] : \A a, b \in DOMAIN s : s[a] = s[b] => a = b}

\* An exception raised at the current statement of the except clause: the
\* clause has no handler and no finally, the exception leaves the wrapper.
HookRaises(exc) ==
  /\ hook' = "raised"
  /\ hookEnd' = exc

\* except KeyboardInterrupt: the interrupt that escaped func is caught
Caught ==
  /\ hook' = "getsignal"
  /\ atCatch' = close_items

\* func(*args, **kwargs) returns: the except clause does not run
FuncReturns ==
  /\ hook = "func"
  /\ hook' = "done"
  /\ hookEnd' = "return"
  /\ UNCHANGED <<script, close_items, sigint_handler, sigalrm_handler,
                 default_sigint_handler, alarm, insts, closeCalls, atCatch,
                 sigints, stray>>
  /\ UNCHANGED <<ioVars, lifeVars, scVars>>

\* func raises KeyboardInterrupt itself (or lets one of a callee through)
FuncInterrupt ==
  /\ hook = "func"
  /\ Caught
  /\ UNCHANGED <<script, close_items, sigint_handler, sigalrm_handler,
                 default_sigint_handler, alarm, insts, closeCalls, hookEnd,
                 sigints, stray>>
  /\ UNCHANGED <<ioVars, lifeVars, scVars>>

\* A SIGINT is delivered to the process: signal.default_int_handler raises
\* KeyboardInterrupt at the statement being run, _ignore_keyboard_interrupt
\* prints its message and returns.
Sigint ==
  /\ ~HookEnded
  /\ sigints < MaxSigints
  /\ sigints' = sigints + 1
  /\ IF sigint_handler = "default_int_handler"
     THEN IF hook = "func"
          THEN Caught /\ UNCHANGED hookEnd
          ELSE HookRaises("KeyboardInterrupt") /\ UNCHANGED atCatch
     ELSE UNCHANGED <<hook, hookEnd, atCatch>>
  /\ UNCHANGED <<script, close_items, sigint_handler, sigalrm_handler,
                 default_sigint_handler, alarm, insts, closeCalls, stray>>
  /\ UNCHANGED <<ioVars, lifeVars, scVars>>

\* default_sigint_handler = signal.getsignal(signal.SIGINT)
GetSignal ==
  /\ hook = "getsignal"
  /\ default_sigint_handler' = sigint_handler
  /\ hook' = "ignore"
  /\ UNCHANGED <<script, close_items, sigint_handler, sigalrm_handler, alarm,
                 insts, closeCalls, hookEnd, atCatch, sigints, stray>>
  /\ UNCHANGED <<ioVars, lifeVars, scVars>>

\* signal.signal(signal.SIGINT, _ignore_keyboard_interrupt)
InstallIgnore ==
  /\ hook = "ignore"
  /\ sigint_handler' = "_ignore_keyboard_interrupt"
  /\ hook' = "sigalrm"
  /\ UNCHANGED <<script, close_items, sigalrm_handler, default_sigint_handler,
                 alarm, insts, closeCalls, hookEnd, atCatch, sigints, stray>>
  /\ UNCHANGED <<ioVars, lifeVars, scVars>>

\* signal.signal(signal.SIGALRM, timeout_error)
InstallTimeoutError ==
  /\ hook = "sigalrm"
  /\ sigalrm_handler' = "timeout_error"
  /\ hook' = "alarm"
  /\ UNCHANGED <<script, close_items, sigint_handler, default_sigint_handler,
                 alarm, insts, closeCalls, hookEnd, atCatch, sigints, stray>>
  /\ UNCHANGED <<ioVars, lifeVars, scVars>>

\* signal.alarm(seconds): an alarm in that many seconds; 0 cancels the alarm
Alarm(seconds) == seconds

\* signal.alarm(timeout)
ArmAlarm ==
  /\ hook = "alarm"
  /\ alarm' = Alarm(script.timeout)
  /\ hook' = "list"
  /\ UNCHANGED <<script, close_items, sigint_handler, sigalrm_handler,
                 default_sigint_handler, insts, closeCalls, hookEnd, atCatch,
                 sigints, stray>>
  /\ UNCHANGED <<ioVars, lifeVars, scVars>>

\* for inst in list(close_items): the copy the loop iterates over
ListItems ==
  /\ hook = "list"
  /\ \E order \in Orders(close_items) : insts' = order
  /\ hook' = "loop"
  /\ UNCHANGED <<script, close_items, sigint_handler, sigalrm_handler,
                 default_sigint_handler, alarm, closeCalls, hookEnd, atCatch,
                 sigints, stray>>
  /\ UNCHANGED <<ioVars, lifeVars, scVars>>

\* close_items after inst.close() has returned: an item such as an
\* _Instrument removes itself from the collection in its close
ItemsAfterClose(inst) ==
  IF inst \in script.removes THEN close_items \ {inst} ELSE close_items

\* inst.close() for the next item of the copy: it returns, raises or blocks
CloseNext ==
  /\ hook = "loop"
  /\ insts # <<>>
  /\ LET inst == Head(insts) IN
       /\ closeCalls' = Append(closeCalls, inst)
       /\ CASE script.behav[inst] = "ok" ->
                 /\ close_items' = ItemsAfterClose(inst)
                 /\ insts' = Tail(insts)
                 /\ UNCHANGED <<hook, hookEnd>>
            [] script.behav[inst] = "raise" ->
                 /\ HookRaises("CloseError")
                 /\ UNCHANGED <<close_items, insts>>
            [] script.behav[inst] = "hang" ->
                 /\ hook' = "closing"
                 /\ UNCHANGED <<close_items, insts, hookEnd>>
  /\ UNCHANGED <<script, sigint_handler, sigalrm_handler, default_sigint_handler,
                 alarm, atCatch, sigints, stray>>
  /\ UNCHANGED <<ioVars, lifeVars, scVars>>

\* the for loop is exhausted
LoopEnd ==
  /\ hook = "loop"
  /\ insts = <<>>
  /\ hook' = "restore"
  /\ UNCHANGED <<script, close_items, sigint_handler, sigalrm_handler,
                 default_sigint_handler, alarm, insts, closeCalls, hookEnd,
                 atCatch, sigints, stray>>
  /\ UNCHANGED <<ioVars, lifeVars, scVars>>

\* signal.signal(signal.SIGINT, default_sigint_handler)
RestoreSigint ==
  /\ hook = "restore"
  /\ sigint_handler' = default_sigint_handler
  /\ hook' = "cancel"
  /\ UNCHANGED <<script, close_items, sigalrm_handler, default_sigint_handler,
                 alarm, insts, closeCalls, hookEnd, atCatch, sigints, stray>>
  /\ UNCHANGED <<ioVars, lifeVars, scVars>>

\* signal.alarm(0): the call has returned and the except clause is still to
\* be left; an interrupt that is pending when the call returns is raised
\* here, inside the except clause, by the handler that line 51 has restored
CancelAlarm ==
  /\ hook = "cancel"
  /\ alarm' = Alarm(0)
  /\ hook' = "return"
  /\ UNCHANGED <<script, close_items, sigint_handler, sigalrm_handler,
                 default_sigint_handler, insts, closeCalls, hookEnd, atCatch,
                 sigints, stray>>
  /\ UNCHANGED <<ioVars, lifeVars, scVars>>

\* the except clause is left and SIGINT_protected_func returns None
WrapperReturns ==
  /\ hook = "return"
  /\ hook' = "done"
  /\ hookEnd' = "return"
  /\ UNCHANGED <<script, close_items, sigint_handler, sigalrm_handler,
                 default_sigint_handler, alarm, insts, closeCalls, atCatch,
                 sigints, stray>>
  /\ UNCHANGED <<ioVars, lifeVars, scVars>>

\* A second passes. When the alarm runs out SIGALRM is delivered and
\* timeout_error raises TimeoutError at the statement being run: inside the
\* wrapper while it runs, in whatever the program does next once it has ended.
Tick ==
  /\ alarm > 0
  /\ alarm' = alarm - 1
  /\ IF alarm = 1
     THEN IF HookEnded
          THEN stray' = TRUE /\ UNCHANGED <<hook, hookEnd>>
          ELSE HookRaises("TimeoutError") /\ UNCHANGED stray
     ELSE UNCHANGED <<hook, hookEnd, stray>>
  /\ UNCHANGED <<script, close_items, sigint_handler, sigalrm_handler,
                 default_sigint_handler, insts, closeCalls, atCatch, sigints>>
  /\ UNCHANGED <<ioVars, lifeVars, scVars>>

(***************************************************************************)
(* SerialConnection (connection.py) and atomic_operation (decorators.py).  *)
(* One connection object is used by the callers as threads. get_settings,  *)
(* send and receive are wrapped by atomic_operation; __init__,             *)
(* update_settings, close and flush are not and take no lock. A thread's   *)
(* position is a stack of frames, one per method it is inside.             *)
(*   pc of a wrapped method:                                               *)
(*       "acquire"    at 'with self._atomic_lock' (line 66), lock not held *)
(*       "body"       func(self, *args, *kwargs) is next (line 67)         *)
(*       "inner"      func has called another wrapped method (a compound   *)
(*                    operation; atomic_operation accepts any method)      *)
(*       "read_until" receive has read self._line_term; read_until(term)   *)
(*                    is next                                              *)
(*       "read"       read_until is about to call self.read(1)             *)
(*       "select"     read(1) waits for a byte or for its timeout          *)
(*       "exit"       func has returned or raised, the with-block is left  *)
(*   pc of update_settings: "line_term" (lines 107-110), "apply" (112)     *)
(*   pc of close: "reset_input" (116), "reset_output" (117), "close" (118) *)
(*   pc of flush: "in_waiting" (132), "out_waiting" (133), "reset_input"   *)
(*                (134), "reset_output" (135)                              *)
(* The port's input buffer rx is the string of the bytes received and not  *)
(* yet read.                                                               *)
(***************************************************************************)
LF == "\n"
\* the values a settings dict gives 'line_termination' ("absent": no such key)
TermSettings == {"absent", LF}
\* the values it gives 'timeout': -1 no such key, 1 a second (0 is None, the
\* default of serial.Serial: reads block)
TimeoutSettings == {-1, 1}
SettingsDicts == [term : TermSettings, timeout : TimeoutSettings]
\* settings=None, the default of SerialConnection.__init__
NoSettings == [term |-> "none", timeout |-> -1]

\* update_settings: self._line_term after the if/else on the dict
LineTermOf(settings) ==
  IF settings.term # "absent" THEN settings.term ELSE CRLF

\* self._serial.apply_settings(settings): only the keys given are applied
TimeoutAfter(old, settings) ==
  IF settings.timeout # -1 THEN settings.timeout ELSE old

\* the connection object before SerialConnection(...) has run
AbsentConnection ==
  [state |-> "absent", line_term |-> "unset", settings |-> NoSettings,
   timeout |-> 0, rx |-> "", tx |-> "", arrivals |-> 0]

\* the lines a device sends: a text and the terminator that ends it
Chunks == {[text |-> "OK", term |-> CRLF], [text |-> "OK", term |-> LF]}

\* read_until: line[-lenterm:] == expected
EndsWithTerm(line, term) ==
  /\ Len(line) >= Len(term)
  /\ SubSeq(line, Len(line) - Len(term) + 1, Len(line)) = term

\* the arguments of a call: positional values, and keywords in dict order
NoArgs == [pos |-> <<>>, kw |-> <<>>]
Positional(values) == [pos |-> values, kw |-> <<>>]
Keywords(pairs) == [pos |-> <<>>, kw |-> pairs]

RECURSIVE Keys(_)
Keys(pairs) == IF pairs = <<>> THEN <<>> ELSE <<Head(pairs)[1]>> \o Keys(Tail(pairs))

\* atomic_func: func(self, *args, *kwargs). The second star unpacks the
\* dict as an iterable: its keys follow the positional arguments, the
\* values are dropped and func receives no keyword argument.
Forwarded(args) == [pos |-> args.pos \o Keys(args.kw), kw |-> <<>>]

\* a call of method m (settings: the dict given to update_settings)
CallTo(m, args) == [m |-> m, args |-> args, settings |-> NoSettings]

\* the calls the threads make on the wrapped methods of the connection
AtomicCalls ==
  {CallTo("get_settings", NoArgs),
   CallTo("send", Positional(<<"V1?\n">>)),
   CallTo("send", Keywords(<<<<"data", "V1?\n">>>>)),
   CallTo("send", NoArgs),
   CallTo("receive", NoArgs),
   CallTo("compound", NoArgs)}

\* the calls they make on the methods that are not wrapped
DirectCalls ==
  {[m |-> "update_settings", args |-> NoArgs, settings |-> settings] :
     settings \in SettingsDicts}
    \cup {CallTo("close", NoArgs), CallTo("flush", NoArgs)}

\* the methods atomic_operation wraps
Wrapped == {"get_settings", "send", "receive", "compound"}

\* the wrapped method a compound operation calls inside its own body
InnerCall == CallTo("receive", NoArgs)

\* the parameters of the wrapped methods besides self
Params(m) == IF m = "send" THEN <<"data">> ELSE <<>>

NoneValue == [kind |-> "return", type |-> "", text |-> "None"]
StrValue(text) == [kind |-> "return", type |-> "", text |-> text]
\* the tuple flush returns: in_bytes, out_bytes
CountValue(in, out) ==
  [kind |-> "return", type |-> "",
   text |-> "(" \o ToString(in) \o ", " \o ToString(out) \o ")"]
Raising(type) == [kind |-> "raise", type |-> type, text |-> ""]
Running == [kind |-> "none", type |-> "", text |-> ""]

\* binding the received arguments to the parameters of m: too many or too
\* few positional arguments, or an unknown keyword, is a TypeError
Binds(m, recv) ==
  /\ Len(recv.pos) + Len(recv.kw) = Len(Params(m))
  /\ \A k \in 1 .. Len(recv.kw) :
       \E j \in (Len(recv.pos) + 1) .. Len(Params(m)) : Params(m)[j] = recv.kw[k][1]

\* the value bound to the parameter 'data' of send
DataOf(recv) == IF recv.pos # <<>> THEN recv.pos[1] ELSE recv.kw[1][2]

\* the first statement of a method that is not wrapped
FirstStatement(m) ==
  CASE m = "update_settings" -> "line_term"
    [] m = "close" -> "reset_input"
    [] m = "flush" -> "in_waiting"

\* a frame: term, line, deadline and wait are the locals of read_until and
\* read (the terminator it was given, the bytes it has read, the timeout its
\* deadline was made from and the timeout of the read(1) in progress), count
\* is flush's in_bytes
MethodFrame(c, pc) ==
  [m |-> c.m, pc |-> pc, args |-> c.args, settings |-> c.settings, recv |-> NoArgs,
   out |-> Running, term |-> "unset", line |-> "", deadline |-> 0, wait |-> 0,
   count |-> 0]

AtomicFrame(c) == MethodFrame(c, "acquire")
FreeLock == [owner |-> 0, count |-> 0]
Idle == [n |-> 0, call |-> CallTo("", NoArgs), recv |-> NoArgs,
         out |-> Running, term |-> "unset"]

\* no SerialConnection exists
NoConnection ==
  /\ sconn = AbsentConnection
  /\ atomic_lock = FreeLock
  /\ frames = [t \in Callers |-> <<>>]
  /\ done = [t \in Callers |-> Idle]

\* SerialConnection(device_path, settings): Connection.__init__ makes the
\* RLock, serial.Serial(device_path) opens the port with its defaults
\* (timeout None), and update_settings runs only when a dict was given.
ConstructConnection(settings) ==
  /\ sconn.state = "absent"
  /\ sconn' = [sconn EXCEPT
                 !.state = "open",
                 !.settings = settings,
                 !.line_term = IF settings = NoSettings THEN "unset"
                               ELSE LineTermOf(settings),
                 !.timeout = IF settings = NoSettings THEN 0
                             ELSE TimeoutAfter(0, settings)]
  /\ atomic_lock' = FreeLock
  /\ UNCHANGED <<frames, done>>
  /\ UNCHANGED <<ioVars, lifeVars, sdVars>>

\* bytes of the device arrive at the open port
Arrive(chunk) ==
  /\ sconn.state = "open"
  /\ sconn.arrivals < MaxArrivals
  /\ sconn' = [sconn EXCEPT !.rx = @ \o chunk.text \o chunk.term, !.arrivals = @ + 1]
  /\ UNCHANGED <<atomic_lock, frames, done>>
  /\ UNCHANGED <<ioVars, lifeVars, sdVars>>

\* thread t calls a wrapped method: atomic_func(self, *args, **kwargs)
AtomicCall(t, c) ==
  /\ sconn.state # "absent"
  /\ frames[t] = <<>>
  /\ done[t].n < MaxAtomic
  /\ frames' = [frames EXCEPT ![t] = <<AtomicFrame(c)>>]
  /\ done' = [done EXCEPT ![t] = [@ EXCEPT !.n = @ + 1, !.call = c, !.recv = NoArgs,
                                            !.out = Running, !.term = "unset"]]
  /\ UNCHANGED <<sconn, atomic_lock>>
  /\ UNCHANGED <<ioVars, lifeVars, sdVars>>

\* thread t calls update_settings, close or flush: the method receives the
\* arguments as they were given
DirectCall(t, c) ==
  /\ sconn.state # "absent"
  /\ frames[t] = <<>>
  /\ done[t].n < MaxAtomic
  /\ frames' = [frames EXCEPT ![t] = <<MethodFrame(c, FirstStatement(c.m))>>]
  /\ done' = [done EXCEPT ![t] = [@ EXCEPT !.n = @ + 1, !.call = c,
                                            !.recv = c.args, !.out = Running,
                                            !.term = "unset"]]
  /\ UNCHANGED <<sconn, atomic_lock>>
  /\ UNCHANGED <<ioVars, lifeVars, sdVars>>

\* the method of thread t that is not wrapped goes on to its next statement
DirectGoto(t, pc) ==
  /\ frames' = [frames EXCEPT ![t][1].pc = pc]
  /\ UNCHANGED done

\* it returns or raises
DirectEnds(t, out) ==
  /\ frames' = [frames EXCEPT ![t] = <<>>]
  /\ done' = [done EXCEPT ![t].out = out]

\* thread t is at statement pc of the method m that is not wrapped
AtDirect(t, m, pc) ==
  /\ frames[t] # <<>>
  /\ frames[t][1].m = m
  /\ frames[t][1].pc = pc

\* a port operation of pyserial on a Serial object that has been closed
PortClosed == sconn.state = "closed"

\* update_settings(settings): the if/else that assigns self._line_term, then
\* self._serial.apply_settings(settings)
UpdateSettings(t) ==
  /\ \/ /\ AtDirect(t, "update_settings", "line_term")
        /\ sconn' = [sconn EXCEPT !.settings = frames[t][1].settings,
                                  !.line_term = LineTermOf(frames[t][1].settings)]
        /\ DirectGoto(t, "apply")
     \/ /\ AtDirect(t, "update_settings", "apply")
        /\ sconn' = [sconn EXCEPT !.timeout = TimeoutAfter(@, frames[t][1].settings)]
        /\ DirectEnds(t, NoneValue)
  /\ UNCHANGED atomic_lock
  /\ UNCHANGED <<ioVars, lifeVars, sdVars>>

\* close(): reset_input_buffer(), reset_output_buffer(), close(). The resets
\* raise PortNotOpenError on a closed port; Serial.close() does nothing then.
CloseConnection(t) ==
  /\ \/ /\ AtDirect(t, "close", "reset_input")
        /\ IF PortClosed
           THEN DirectEnds(t, Raising("PortNotOpenError")) /\ UNCHANGED sconn
           ELSE /\ sconn' = [sconn EXCEPT !.rx = ""]
                /\ DirectGoto(t, "reset_output")
     \/ /\ AtDirect(t, "close", "reset_output")
        /\ IF PortClosed
           THEN DirectEnds(t, Raising("PortNotOpenError"))
           ELSE DirectGoto(t, "close")
        /\ UNCHANGED sconn
     \/ /\ AtDirect(t, "close", "close")
        /\ sconn' = [sconn EXCEPT !.state = "closed", !.rx = ""]
        /\ DirectEnds(t, NoneValue)
  /\ UNCHANGED atomic_lock
  /\ UNCHANGED <<ioVars, lifeVars, sdVars>>

\* flush(): in_bytes = in_waiting, out_bytes = out_waiting (write has handed
\* every byte to the device: 0), reset_input_buffer(), reset_output_buffer(),
\* return in_bytes, out_bytes
Flush(t) ==
  /\ \/ /\ AtDirect(t, "flush", "in_waiting")
        /\ IF PortClosed
           THEN DirectEnds(t, Raising("PortNotOpenError"))
           ELSE /\ frames' = [frames EXCEPT ![t][1].pc = "out_waiting",
                                            ![t][1].count = Len(sconn.rx)]
                /\ UNCHANGED done
        /\ UNCHANGED sconn
     \/ /\ AtDirect(t, "flush", "out_waiting")
        /\ IF PortClosed
           THEN DirectEnds(t, Raising("PortNotOpenError"))
           ELSE DirectGoto(t, "reset_input")
        /\ UNCHANGED sconn
     \/ /\ AtDirect(t, "flush", "reset_input")
        /\ IF PortClosed
           THEN DirectEnds(t, Raising("PortNotOpenError")) /\ UNCHANGED sconn
           ELSE /\ sconn' = [sconn EXCEPT !.rx = ""]
                /\ DirectGoto(t, "reset_output")
     \/ /\ AtDirect(t, "flush", "reset_output")
        /\ IF PortClosed
           THEN DirectEnds(t, Raising("PortNotOpenError"))
           ELSE DirectEnds(t, CountValue(frames[t][1].count, 0))
        /\ UNCHANGED sconn
  /\ UNCHANGED atomic_lock
  /\ UNCHANGED <<ioVars, lifeVars, sdVars>>

\* RLock.acquire: free, or owned by the calling thread
CanAcquire(t) == atomic_lock.owner \in {0, t}

\* with self._atomic_lock: the thread waits until it can take the lock
Acquire(t) ==
  /\ frames[t] # <<>>
  /\ frames[t][Len(frames[t])].pc = "acquire"
  /\ CanAcquire(t)
  /\ atomic_lock' = [owner |-> t, count |-> atomic_lock.count + 1]
  /\ frames' = [frames EXCEPT ![t][Len(frames[t])].pc = "body"]
  /\ UNCHANGED <<sconn, done>>
  /\ UNCHANGED <<ioVars, lifeVars, sdVars>>

\* the wrapped method of the top frame f of thread t returns or raises
\* (term: the terminator a receive has read up to)
MethodEnds(t, f, out, term) ==
  /\ frames' = [frames EXCEPT ![t][Len(frames[t])] = [f EXCEPT !.pc = "exit", !.out = out]]
  /\ done' = [done EXCEPT ![t].term = term]

\* func(self, *args, *kwargs): the body of the wrapped method, run with
\* the arguments atomic_func hands on. get_settings returns the settings of
\* the Serial object, open or closed; send writes data.encode('utf-8'), and
\* write raises PortNotOpenError on a closed port; receive reads
\* self._line_term, an attribute that does not exist until update_settings
\* has run, before it calls read_until.
Body(t) ==
  /\ frames[t] # <<>>
  /\ LET top == Len(frames[t])
         f == frames[t][top]
         recv == Forwarded(f.args)
         g == [f EXCEPT !.recv = recv] IN
       /\ f.pc = "body"
       /\ IF ~Binds(f.m, recv)
          THEN /\ MethodEnds(t, g, Raising("TypeError"), "unset")
               /\ UNCHANGED sconn
          ELSE CASE f.m = "get_settings" ->
                      /\ MethodEnds(t, g, StrValue("settings"), "unset")
                      /\ UNCHANGED sconn
                 [] f.m = "send" ->
                      IF PortClosed
                      THEN /\ MethodEnds(t, g, Raising("PortNotOpenError"), "unset")
                           /\ UNCHANGED sconn
                      ELSE /\ sconn' = [sconn EXCEPT !.tx = DataOf(recv)]
                           /\ MethodEnds(t, g, NoneValue, "unset")
                 [] f.m = "receive" ->
                      /\ IF sconn.line_term = "unset"
                         THEN MethodEnds(t, g, Raising("AttributeError"), "unset")
                         ELSE /\ frames' = [frames EXCEPT ![t][top] =
                                              [g EXCEPT !.pc = "read_until",
                                                        !.term = sconn.line_term]]
                              /\ UNCHANGED done
                      /\ UNCHANGED sconn
                 [] f.m = "compound" ->
                      /\ frames' = [frames EXCEPT ![t] =
                                      Append([@ EXCEPT ![top] = [g EXCEPT !.pc = "inner"]],
                                             AtomicFrame(InnerCall))]
                      /\ UNCHANGED <<sconn, done>>
  /\ UNCHANGED atomic_lock
  /\ UNCHANGED <<ioVars, lifeVars, sdVars>>

\* self._serial.read_until(term), the loop of pyserial: a deadline is made
\* from the timeout in force when read_until starts; each read(1) raises
\* PortNotOpenError on a closed port and otherwise waits, with the timeout in
\* force when it starts (0: None, no limit), for one byte; the loop ends when
\* the bytes read end with term, when a read(1) has returned no byte (its
\* timeout has passed, or the port was closed under its wait), and after a
\* byte that came when the deadline had passed. What has been read is
\* returned, and the bytes are off the port.
ReadUntil(t) ==
  /\ frames[t] # <<>>
  /\ LET top == Len(frames[t])
         f == frames[t][top] IN
       /\ f.m = "receive"
       /\ \/ /\ f.pc = "read_until"
             /\ frames' = [frames EXCEPT ![t][top] =
                             [f EXCEPT !.pc = "read", !.deadline = sconn.timeout]]
             /\ UNCHANGED <<sconn, done>>
          \/ /\ f.pc = "read"
             /\ IF PortClosed
                THEN MethodEnds(t, f, Raising("PortNotOpenError"), f.term)
                ELSE /\ frames' = [frames EXCEPT ![t][top] =
                                     [f EXCEPT !.pc = "select", !.wait = sconn.timeout]]
                     /\ UNCHANGED done
             /\ UNCHANGED sconn
          \/ /\ f.pc = "select"
             /\ sconn.rx # ""
             /\ LET line == f.line \o Char(sconn.rx, 1)
                    g == [f EXCEPT !.line = line] IN
                  /\ sconn' = [sconn EXCEPT !.rx = SubSeq(@, 2, Len(@))]
                  /\ IF EndsWithTerm(line, f.term)
                     THEN MethodEnds(t, g, StrValue(line), f.term)
                     ELSE \/ /\ f.deadline # 0
                             /\ MethodEnds(t, g, StrValue(line), f.term)
                          \/ /\ frames' = [frames EXCEPT ![t][top] =
                                             [g EXCEPT !.pc = "read"]]
                             /\ UNCHANGED done
          \/ /\ f.pc = "select"
             /\ sconn.rx = ""
             /\ f.wait # 0 \/ PortClosed
             /\ MethodEnds(t, f, StrValue(f.line), f.term)
             /\ UNCHANGED sconn
  /\ UNCHANGED atomic_lock
  /\ UNCHANGED <<ioVars, lifeVars, sdVars>>

\* (a lock released only when func returned)
ReleasesOnReturnOnly(out) == out.kind = "return"

\* the with statement releases the lock when the block is left by a return
\* and when it is left by an exception
Releases(out) == TRUE

LockAfterRelease(out) ==
  IF ~Releases(out) THEN atomic_lock
  ELSE IF atomic_lock.count = 1 THEN FreeLock
  ELSE [atomic_lock EXCEPT !.count = @ - 1]

\* the with-block of atomic_func is left: the lock is released once, and
\* the value or the exception of func goes to the caller of atomic_func,
\* the thread's program or the body of the enclosing wrapped method
Release(t) ==
  /\ frames[t] # <<>>
  /\ LET top == Len(frames[t])
         f == frames[t][top] IN
       /\ f.pc = "exit"
       /\ atomic_lock' = LockAfterRelease(f.out)
       /\ IF top = 1
          THEN /\ frames' = [frames EXCEPT ![t] = <<>>]
               /\ done' = [done EXCEPT ![t].out = f.out, ![t].recv = f.recv]
          ELSE /\ frames' = [frames EXCEPT ![t] =
                               [SubSeq(@, 1, top - 1) EXCEPT
                                  ![top - 1].pc = "exit", ![top - 1].out = f.out]]
               /\ UNCHANGED done
  /\ UNCHANGED sconn
  /\ UNCHANGED <<ioVars, lifeVars, sdVars>>

(***************************************************************************)
(* The scripted devices the driver is run against.                         *)
(***************************************************************************)
Dev(stb, lsr1, lsr2, esr, eer, mute) ==
  [stb |-> stb, lsr1 |-> lsr1, lsr2 |-> lsr2, esr |-> esr, eer |-> eer, mute |-> mute,
   mem |-> DefaultMem, port |-> "ok", late |-> 0, changes |-> 0]

\* every raw register reading, with one value on each side of [0, 255]
RegVals == (-1) .. (RegMax + 1)

\* every status byte, with sub-register replies that raise nothing
StbSweep == {Dev(s, 4, 95, 129, 0, {}) : s \in RegVals}
\* every limit status value, on either channel or both
LsrSweep == {Dev(s, l, l, 129, 0, {}) : s \in {1, 2, 3}, l \in RegVals}
\* every event status value, alone or with a channel 1 limit event
EsrSweep == {Dev(s, 4, 0, e, c, {}) : s \in {32, 33}, e \in RegVals, c \in {0, 104, 999}}
\* every execution error code of the table, and codes outside it
EerSweep == {Dev(32, 0, 0, 16, c, {}) : c \in EerCodes \cup {-1, 10, 999}}
\* devices that leave some commands unanswered
MuteSweep ==
  {Dev(s, 4, 0, e, 104, m) : s \in {0, 1, 32, 33}, e \in {0, 16},
                             m \in SUBSET {QueryCmd, "*STB?", "LSR1?", "*ESR?", "EER?"}}

DevConfigs == StbSweep \cup LsrSweep \cup EsrSweep \cup EerSweep \cup MuteSweep

\* the devices two concurrent callers are run against: the status byte is
\* clean or reports a channel 1 limit event, and the device answers every
\* command or leaves the query unanswered
ConcConfigs ==
  {Dev(0, 0, 0, 0, 0, {}), Dev(0, 0, 0, 0, 0, {QueryCmd}), Dev(1, 4, 0, 0, 0, {})}

(***************************************************************************)
(* Initial states and specifications.                                      *)
(***************************************************************************)
\* the driver's state with every caller idle
IdleTransport ==
  /\ inbuf = <<>>
  /\ stack = [t \in Callers |-> <<>>]
  /\ ret = [t \in Callers |-> NoLine]
  /\ outcome = [t \in Callers |-> Pending]
  /\ io = [t \in Callers |-> <<>>]
  /\ warnings = [t \in Callers |-> <<>>]
  /\ calls = [t \in Callers |-> 0]

IdleIo ==
  /\ IdleTransport
  /\ call = [t \in Callers |-> NoCall]

\* instrument 1 constructed and open, instrument 2 not constructed
OneOpen ==
  /\ registry = {1}
  /\ obj = [i \in Insts |-> IF i = 1 THEN "open" ELSE "absent"]
  /\ conn = [i \in Insts |-> IF i = 1 THEN "open" ELSE "none"]
  /\ refs = [i \in Insts |-> IF i = 1 THEN 1 ELSE 0]
  /\ inWith = [i \in Insts |-> FALSE]
  /\ closes = [i \in Insts |-> 0]
  /\ lastClose = [i \in Insts |-> "none"]
  /\ touched = [i \in Insts |-> FALSE]
  /\ exitPath = [i \in Insts |-> "none"]
  /\ channels = [i \in Insts |-> IF i = 1 THEN OpenChannels ELSE <<>>]
  /\ identity = [i \in Insts |->
                  IF i = 1
                  THEN IdentityFrom(UnknownIdentity, Split(IdnLine(IdnFields), ","))
                  ELSE UnknownIdentity]
  /\ closing = [c \in Closers |-> NoClose]
  /\ ctor = [i \in Insts |-> IF i = 1 THEN "returned" ELSE "none"]

\* no SIGINT_protected function is running
NoShutdown ==
  /\ script = [behav |-> [i \in Items |-> "ok"], removes |-> {}, timeout |-> 1,
               orig |-> "default_int_handler"]
  /\ close_items = {}
  /\ sigint_handler = "default_int_handler"
  /\ sigalrm_handler = "SIG_DFL"
  /\ default_sigint_handler = ""
  /\ alarm = 0
  /\ hook = "done"
  /\ insts = <<>>
  /\ closeCalls = <<>>
  /\ hookEnd = "none"
  /\ atCatch = {}
  /\ sigints = 0
  /\ stray = FALSE

\* The operations of one caller of the driver. With a single caller and no
\* line arriving unasked the input buffer is empty at every look the driver
\* takes at it, so the resets (QueryReset, CheckReset) are steps of the
\* specifications with a second caller or a late line only.
DriverStep(t) ==
  \/ Call(t, "send", SetCmd)
  \/ Call(t, "query", QueryCmd)
  \/ SendWrite(t)
  \/ SendReturn(t)
  \/ QueryFlush(t)
  \/ QueryWrite(t)
  \/ QueryRead(t)
  \/ QueryReraise(t)
  \/ CheckFlush(t)
  \/ CheckWrite(t)
  \/ CheckRead(t)
  \/ CheckReturn(t)
  \/ PsbEnter(t)
  \/ PsbBit0(t)
  \/ PsbBit1(t)
  \/ PsbLsr(t, 1)
  \/ PsbLsr(t, 2)
  \/ PsbBit5(t)
  \/ PsbEsr(t)
  \/ PsbEsrDone(t)
  \/ PsbReturn(t)
  \/ PesrEnter(t)
  \/ PesrEer(t)

\* One caller, every scripted device.
Init ==
  /\ dev \in DevConfigs
  /\ IdleIo
  /\ OneOpen
  /\ NoShutdown
  /\ NoConnection

Next == DriverStep(1)

Spec == Init /\ [][Next]_vars

\* Two callers on the same instrument.
InitConc ==
  /\ dev \in ConcConfigs
  /\ IdleIo
  /\ OneOpen
  /\ NoShutdown
  /\ NoConnection

\* The operations of one caller that these devices can enable.
ConcStep(t) ==
  \/ Call(t, "send", SetCmd)
  \/ Call(t, "query", QueryCmd)
  \/ SendWrite(t)
  \/ SendReturn(t)
  \/ QueryFlush(t)
  \/ QueryWrite(t)
  \/ QueryRead(t)
  \/ QueryReraise(t)
  \/ CheckFlush(t)
  \/ CheckWrite(t)
  \/ CheckRead(t)
  \/ CheckReturn(t)
  \/ PsbEnter(t)
  \/ PsbBit0(t)
  \/ PsbBit1(t)
  \/ PsbLsr(t, 1)
  \/ PsbBit5(t)
  \/ PsbReturn(t)
  \/ QueryReset(t)
  \/ CheckReset(t)

NextConc == \E t \in Callers : ConcStep(t)

SpecConc == InitConc /\ [][NextConc]_vars

\* the devices the channel accessors are run against: a clean status, and a
\* channel 1 voltage limit event to warn about
ChannelConfigs == {Dev(0, 0, 0, 0, 0, {}), Dev(1, 1, 0, 0, 0, {})}

\* One caller uses the accessors of one channel of an open instrument, the
\* setters with one value.
InitChannel ==
  /\ dev \in ChannelConfigs
  /\ IdleTransport
  /\ \E n \in Channels, value \in Setpoints :
       call = [t \in Callers |-> CallOf("", "", n, value, NoPrev)]
  /\ OneOpen
  /\ NoShutdown
  /\ NoConnection

NextChannel ==
  \/ \E acc \in Accessors : Access(1, acc)
  \/ AccCall(1)
  \/ AccParse(1)
  \/ AccSent(1)
  \/ DeviceChange(1)
  \/ SendWrite(1)
  \/ SendReturn(1)
  \/ QueryFlush(1)
  \/ QueryWrite(1)
  \/ QueryRead(1)
  \/ CheckFlush(1)
  \/ CheckWrite(1)
  \/ CheckRead(1)
  \/ CheckReturn(1)
  \/ PsbEnter(1)
  \/ PsbBit0(1)
  \/ PsbBit1(1)
  \/ PsbLsr(1, 1)
  \/ PsbBit5(1)
  \/ PsbReturn(1)

SpecChannel == InitChannel /\ [][NextChannel]_vars

\* A line the device sends late: the answer to a reading query of an earlier
\* exchange whose read had timed out.
LateReply(n) == [ReadingLine("V", n, "5.000") EXCEPT !.src = "late"]

\* The late line arrives in the input buffer, at any moment.
LateLine(t) ==
  /\ dev.late < MaxLate
  /\ dev' = [dev EXCEPT !.late = @ + 1]
  /\ inbuf' = Append(inbuf, LateReply(call[t].ch))
  /\ Log(t, Ev("arrive", "late"))
  /\ UNCHANGED <<stack, ret, outcome, warnings, calls, call>>
  /\ UNCHANGED <<lifeVars, sdVars, scVars>>

\* The status registers were read and cleared by the cascade: the summary
\* bits of the status byte are clear from the next exchange on.
StatusCleared(t) ==
  /\ stack[t] = <<>>
  /\ calls[t] > 0
  /\ dev.stb # 0
  /\ dev' = [dev EXCEPT !.stb = 0]
  /\ UNCHANGED <<inbuf, stack, ret, outcome, io, warnings, calls, call>>
  /\ UNCHANGED <<lifeVars, sdVars, scVars>>

\* the devices a session of several calls is run against: a clean status,
\* an out-of-range status byte, a command parsing error, a verify timeout,
\* an execution error, and the same with the reading queries unanswered;
\* also an event status that only reports power-on and operation complete
SessionConfigs ==
  {Dev(0, 0, 0, 0, 0, m) : m \in {{}, {"V1O?", "V2O?"}}}
    \cup {Dev(256, 0, 0, 0, 0, {})}
    \cup {Dev(32, 0, 0, 129, 0, {})}
    \cup {Dev(32, 0, 0, e, 104, m) : e \in {8, 16, 32}, m \in {{}, {"V1O?", "V2O?"}}}

\* the accessors used in a session: one that queries, one that sends
SessionAccessors == {"voltage", "output_on"}

\* One caller makes several accessor calls on an open instrument.
InitSession ==
  /\ dev \in SessionConfigs
  /\ IdleTransport
  /\ \E n \in Channels :
       call = [t \in Callers |-> CallOf("", "", n, 0, NoPrev)]
  /\ OneOpen
  /\ NoShutdown
  /\ NoConnection

NextSession ==
  \/ \E acc \in SessionAccessors : Access(1, acc)
  \/ AccCall(1)
  \/ AccParse(1)
  \/ AccSent(1)
  \/ LateLine(1)
  \/ StatusCleared(1)
  \/ SendWrite(1)
  \/ SendReturn(1)
  \/ QueryFlush(1)
  \/ QueryReset(1)
  \/ QueryWrite(1)
  \/ QueryRead(1)
  \/ QueryReraise(1)
  \/ CheckFlush(1)
  \/ CheckReset(1)
  \/ CheckWrite(1)
  \/ CheckRead(1)
  \/ CheckReturn(1)
  \/ PsbEnter(1)
  \/ PsbBit0(1)
  \/ PsbBit1(1)
  \/ PsbBit5(1)
  \/ PsbEsr(1)
  \/ PsbEsrDone(1)
  \/ PsbReturn(1)
  \/ PesrEnter(1)
  \/ PesrEer(1)

SpecSession == InitSession /\ [][NextSession]_vars

\* the devices the constructor is run against: every combination of read-back
\* values 255 and 254, a port that is missing or cannot be opened, an
\* identity of three fields, a status that warns or reports an error, and
\* queries of the construction left unanswered
WithMem(d, q, line) == [d EXCEPT !.mem[q] = line]
ReadBackSweep ==
  {[Dev(0, 0, 0, 0, 0, {}) EXCEPT
      !.mem["LSE1?"] = NumLine("LSE1?", a), !.mem["LSE2?"] = NumLine("LSE2?", b),
      !.mem["*SRE?"] = NumLine("*SRE?", c), !.mem["*ESE?"] = NumLine("*ESE?", d)] :
     a \in {RegMax, RegMax - 1}, b \in {RegMax, RegMax - 1},
     c \in {RegMax, RegMax - 1}, d \in {RegMax, RegMax - 1}}
OpenConfigs ==
  ReadBackSweep
    \cup {[Dev(0, 0, 0, 0, 0, {}) EXCEPT !.port = p] : p \in {"missing", "busy"}}
    \cup {WithMem(Dev(0, 0, 0, 0, 0, {}), "*IDN?", IdnLine(<<"THURLBY THANDAR", "CPX400DP", "527296">>)),
          WithMem(Dev(0, 0, 0, 0, 0, {}), "*ESE?", TextLine("*ESE?"))}
    \cup {Dev(s, 1, 0, 32, 0, m) : s \in {1, 32}, m \in {{}, {"LSE2?"}, {"*IDN?"}}}
    \cup {Dev(0, 0, 0, 0, 0, m) : m \in {{"LSE2?"}, {"*IDN?"}, {"*STB?"}}}

\* Nothing is constructed yet; one caller constructs instrument 1 and then
\* reads its channel accessors.
InitOpen ==
  /\ dev \in OpenConfigs
  /\ IdleIo
  /\ registry = {}
  /\ obj = [i \in Insts |-> "absent"]
  /\ conn = [i \in Insts |-> "none"]
  /\ refs = [i \in Insts |-> 0]
  /\ inWith = [i \in Insts |-> FALSE]
  /\ closes = [i \in Insts |-> 0]
  /\ lastClose = [i \in Insts |-> "none"]
  /\ touched = [i \in Insts |-> FALSE]
  /\ exitPath = [i \in Insts |-> "none"]
  /\ channels = [i \in Insts |-> <<>>]
  /\ identity = [i \in Insts |-> UnknownIdentity]
  /\ closing = [c \in Closers |-> NoClose]
  /\ ctor = [i \in Insts |-> "none"]
  /\ NoShutdown
  /\ NoConnection

NextOpen ==
  \/ ConstructCall(1)
  \/ OpenConcrete(1)
  \/ InitExists(1)
  \/ InitRegister(1)
  \/ InitSerial(1)
  \/ InitChannelSend(1)
  \/ InitChannelQuery(1)
  \/ InitChannelAssert(1)
  \/ InitIdentity(1)
  \/ InitIdentitySet(1)
  \/ InitEnableSend(1)
  \/ InitEnableQuery(1)
  \/ InitEnableAssert(1)
  \/ \E N \in 1 .. 4 : ChN(1, N)
  \/ SendWrite(1)
  \/ SendReturn(1)
  \/ QueryFlush(1)
  \/ QueryWrite(1)
  \/ QueryRead(1)
  \/ QueryReraise(1)
  \/ CheckFlush(1)
  \/ CheckWrite(1)
  \/ CheckRead(1)
  \/ CheckReturn(1)
  \/ PsbEnter(1)
  \/ PsbBit0(1)
  \/ PsbBit1(1)
  \/ PsbLsr(1, 1)
  \/ PsbBit5(1)
  \/ PsbEsr(1)
  \/ PsbReturn(1)
  \/ PesrEnter(1)

SpecOpen == InitOpen /\ [][NextOpen]_vars

\* No instrument constructed yet, the device behind the port is there.
InitLife ==
  /\ dev = Dev(0, 0, 0, 0, 0, {})
  /\ IdleIo
  /\ registry = {}
  /\ obj = [i \in Insts |-> "absent"]
  /\ conn = [i \in Insts |-> "none"]
  /\ refs = [i \in Insts |-> 0]
  /\ inWith = [i \in Insts |-> FALSE]
  /\ closes = [i \in Insts |-> 0]
  /\ lastClose = [i \in Insts |-> "none"]
  /\ touched = [i \in Insts |-> FALSE]
  /\ exitPath = [i \in Insts |-> "none"]
  /\ channels = [i \in Insts |-> <<>>]
  /\ identity = [i \in Insts |-> UnknownIdentity]
  /\ closing = [c \in Closers |-> NoClose]
  /\ ctor = [i \in Insts |-> "none"]
  /\ NoShutdown
  /\ NoConnection


\* The device behind the serial port goes away (a USB adapter is unplugged)
\* or comes back: while it is away the operations on an open port raise.
PortLost ==
  /\ dev.port = "ok"
  /\ dev' = [dev EXCEPT !.port = "lost"]
  /\ UNCHANGED <<inbuf, stack, ret, outcome, io, warnings, calls, call>>
  /\ UNCHANGED <<lifeVars, sdVars, scVars>>

PortRestored ==
  /\ dev.port = "lost"
  /\ dev' = [dev EXCEPT !.port = "ok"]
  /\ UNCHANGED <<inbuf, stack, ret, outcome, io, warnings, calls, call>>
  /\ UNCHANGED <<lifeVars, sdVars, scVars>>

\* A port operation of the driver (in_waiting, reset_input_buffer, write,
\* read_until) on a
\* Serial object that has been closed raises PortNotOpenError.
PortNotOpen == Raised("PortNotOpenError", "Attempting to use a port that is not open")

\* the statement caller t runs next is an operation on the port
AtPortOp(t) ==
  /\ stack[t] # <<>>
  /\ Top(t).fn \in {"send", "query", "_check_status"}
  /\ Top(t).pc \in {"flush", "reset", "write", "read"}

\* the next transport operation of caller t finds the port closed
PortOpFails(t) ==
  /\ conn[1] = "closed"
  /\ AtPortOp(t)
  /\ Raise(t, PortNotOpen)
  /\ UNCHANGED <<dev, inbuf, io, warnings, calls, call>>
  /\ UNCHANGED <<lifeVars, sdVars, scVars>>

\* the exception of a port operation of the driver on the open port of a
\* device that is gone: in_waiting (ioctl) raises OSError,
\* reset_input_buffer (tcflush) termios.error, write and read_until
\* SerialException
PortLostError(pc) ==
  CASE pc = "flush" -> Raised("OSError", "Input/output error")
    [] pc = "reset" -> Raised("termios.error", "Input/output error")
    [] pc = "write" -> Raised("SerialException", "write failed")
    [] pc = "read" -> Raised("SerialException", "read failed")

\* the next transport operation of caller t finds the device gone; what the
\* device had sent stays in the input buffer
PortOpLost(t) ==
  /\ conn[1] = "open"
  /\ dev.port = "lost"
  /\ AtPortOp(t)
  /\ Raise(t, PortLostError(Top(t).pc))
  /\ UNCHANGED <<dev, inbuf, io, warnings, calls, call>>
  /\ UNCHANGED <<lifeVars, sdVars, scVars>>

\* An exception has left CPX400DP(...): the object lives on for as long as
\* the exception in flight refers to it
ConstructFails(t) ==
  /\ stack[t] = <<>>
  /\ obj[1] = "constructing"
  /\ outcome[t].kind = "raise"
  /\ ConstructRaises(1)
  /\ UNCHANGED <<registry, conn, refs, inWith, closes, lastClose, touched, exitPath,
                 channels, identity, closing>>
  /\ UNCHANGED <<ioVars, sdVars, scVars>>

\* the statements of CPX400DP(...) by caller t, with the sends and queries
\* it makes; a port operation among them is made on the open port of a
\* device that is there
ConstructStep(t) ==
  /\ dev.port # "lost" \/ ~AtPortOp(t)
  /\ conn[1] = "open" \/ ~AtPortOp(t)
  /\ \/ InitExists(t)
     \/ InitRegister(t)
     \/ InitSerial(t)
     \/ InitChannelSend(t)
     \/ InitChannelQuery(t)
     \/ InitChannelAssert(t)
     \/ InitIdentity(t)
     \/ InitIdentitySet(t)
     \/ InitEnableSend(t)
     \/ InitEnableQuery(t)
     \/ InitEnableAssert(t)
     \/ SendWrite(t)
     \/ SendReturn(t)
     \/ QueryFlush(t)
     \/ QueryWrite(t)
     \/ QueryRead(t)
     \/ CheckFlush(t)
     \/ CheckWrite(t)
     \/ CheckRead(t)
     \/ CheckReturn(t)
     \/ PsbEnter(t)
     \/ PsbBit0(t)
     \/ PsbBit1(t)
     \/ PsbBit5(t)
     \/ PsbReturn(t)

\* the ports the instrument is constructed on: the device is there, its path
\* does not exist, or the port is taken
FaultConfigs == {[Dev(0, 0, 0, 0, 0, {}) EXCEPT !.port = p] : p \in {"ok", "missing", "busy"}}

InitCloseFault ==
  /\ dev \in FaultConfigs
  /\ IdleIo
  /\ registry = {}
  /\ obj = [i \in Insts |-> "absent"]
  /\ conn = [i \in Insts |-> "none"]
  /\ refs = [i \in Insts |-> 0]
  /\ inWith = [i \in Insts |-> FALSE]
  /\ closes = [i \in Insts |-> 0]
  /\ lastClose = [i \in Insts |-> "none"]
  /\ touched = [i \in Insts |-> FALSE]
  /\ exitPath = [i \in Insts |-> "none"]
  /\ channels = [i \in Insts |-> <<>>]
  /\ identity = [i \in Insts |-> UnknownIdentity]
  /\ closing = [c \in Closers |-> NoClose]
  /\ ctor = [i \in Insts |-> "none"]
  /\ NoShutdown
  /\ NoConnection

\* The life cycle of the instrument on a port that can fail under it: thread
\* 1 constructs instrument 1 statement by statement, closes it and leaves
\* its with-blocks, the finalizer runs __del__, and the device may go away
\* and come back between any two statements.
NextCloseFault ==
  \/ ConstructCall(1)
  \/ OpenConcrete(1)
  \/ ConstructStep(1)
  \/ PortOpLost(1)
  \/ ConstructFails(1)
  \/ Close(1, 1)
  \/ Enter(1)
  \/ \E path \in {"normal", "exception"} : Exit(1, 1, path)
  \/ AddRef(1)
  \/ DropRef(1)
  \/ Finalize(1)
  \/ CloseStep(1)
  \/ CloseStep(GC)
  \/ PortLost
  \/ PortRestored

SpecCloseFault == InitCloseFault /\ [][NextCloseFault]_vars

\* the statements of the constructor's queries that run when a reply has
\* not come: another thread's close() has emptied the input buffer
ConstructRecovers(t) ==
  /\ dev.port # "lost" \/ ~AtPortOp(t)
  /\ conn[1] = "open" \/ ~AtPortOp(t)
  /\ QueryReraise(t)

\* The life cycle of the instrument in a program with two threads, on a port
\* that can fail under it. Thread 1 constructs instrument 1 statement by
\* statement, closes it and enters and leaves its with-blocks; thread 2
\* closes it too, as a holder of the object or with the object taken from
\* the registry while the constructor runs; the finalizer runs __del__; the
\* device may go away and come back between any two statements. No close
\* takes a lock.
NextLife ==
  \/ ConstructCall(1)
  \/ OpenConcrete(1)
  \/ ConstructStep(1)
  \/ ConstructRecovers(1)
  \/ PortOpLost(1)
  \/ PortOpFails(1)
  \/ ConstructFails(1)
  \/ \E t \in Callers : Close(t, 1) \/ CloseStep(t)
  \/ CloseRegistered(2, 1)
  \/ Enter(1)
  \/ \E path \in {"normal", "exception"} : Exit(1, 1, path)
  \/ AddRef(1)
  \/ DropRef(1)
  \/ Finalize(1)
  \/ CloseStep(GC)
  \/ PortLost
  \/ PortRestored

SpecLife == InitLife /\ [][NextLife]_vars

\* the devices a call is run against while the instrument may be closed:
\* every status bit with quiet sub-registers, an execution error, and an
\* unanswered query
RaceConfigs ==
  {Dev(35, 4, 95, 129, 0, {}), Dev(32, 0, 0, 16, 104, {}), Dev(0, 0, 0, 0, 0, {QueryCmd})}

InitCloseRace ==
  /\ dev \in RaceConfigs
  /\ IdleIo
  /\ OneOpen
  /\ NoShutdown
  /\ NoConnection

\* Caller 1 runs a send or a query on instrument 1 while the holders of the
\* instrument call close(): neither close nor _close takes a lock or looks
\* at the calls in progress. The driver's steps are those on an open port; on
\* the closed port the next transport operation raises.
DriverOnPort(t) ==
  /\ closing[t] = NoClose
  /\ conn[1] = "open" \/ ~AtPortOp(t)
  /\ DriverStep(t)

NextCloseRace ==
  \/ DriverOnPort(1)
  \/ PortOpFails(1)
  \/ \E t \in Callers : Close(t, 1) \/ CloseStep(t)

SpecCloseRace == InitCloseRace /\ [][NextCloseRace]_vars

\* the steps of the methods thread t is inside
ConnectionStep(t) ==
  \/ Acquire(t)
  \/ Body(t)
  \/ ReadUntil(t)
  \/ Release(t)
  \/ UpdateSettings(t)
  \/ CloseConnection(t)
  \/ Flush(t)

\* Thread 1 uses a SerialConnection made with any settings through its
\* wrapped methods, while thread 2 updates the settings, flushes or closes.
NextSettings ==
  \/ \E settings \in SettingsDicts \cup {NoSettings} : ConstructConnection(settings)
  \/ \E chunk \in Chunks : Arrive(chunk)
  \/ \E c \in AtomicCalls : AtomicCall(1, c)
  \/ \E c \in DirectCalls : DirectCall(2, c)
  \/ \E t \in Callers : ConnectionStep(t)

SpecSettings == InitLife /\ [][NextSettings]_vars

\* the settings the connection shared by two threads is made with: none, or
\* a read timeout of a second
SharedSettings == {NoSettings, [term |-> "absent", timeout |-> 1]}

\* the calls the two threads make on its wrapped methods: a send that
\* returns and one that raises, receive, and a wrapped method that calls
\* receive
SharedCalls == {c \in AtomicCalls : c.args.kw = <<>> /\ c.m # "get_settings"}

\* Two threads use one SerialConnection through its wrapped methods, and
\* thread 2 may close it.
NextConnection ==
  \/ \E settings \in SharedSettings : ConstructConnection(settings)
  \/ \E chunk \in Chunks : Arrive(chunk)
  \/ \E t \in Callers :
       \/ \E c \in SharedCalls : AtomicCall(t, c)
       \/ Acquire(t)
       \/ Body(t)
       \/ ReadUntil(t)
       \/ Release(t)
  \/ DirectCall(2, CallTo("close", NoArgs))
  \/ CloseConnection(2)

SpecConnection == InitLife /\ [][NextConnection]_vars

\* An object without strong references and outside a reference cycle is
\* freed by its reference count: __del__ runs at once, and its close() runs
\* to its end. An object in a cycle with its channels waits for a run of the
\* cycle collector, which no statement of the program asks for.
FinalizeByCount(i) == channels[i] = <<>> /\ Finalize(i)

SpecLifeFair ==
  /\ SpecLife
  /\ \A i \in Insts : WF_vars(FinalizeByCount(i))
  /\ WF_vars(CloseStep(GC))

\* A function wrapped by SIGINT_protected is run once, with every script of
\* close behaviours, items that all remove themselves from close_items in
\* their close (as an _Instrument does) or all stay in it, every content of
\* close_items and either kind of SIGINT handler installed by the application.
Scripts ==
  [behav : [Items -> CloseBehaviours], removes : {{}, Items},
   timeout : Timeouts, orig : OriginalHandlers]

InitShutdown ==
  /\ dev = Dev(0, 0, 0, 0, 0, {})
  /\ IdleIo
  /\ OneOpen
  /\ script \in Scripts
  /\ close_items \in SUBSET Items
  /\ sigint_handler = script.orig
  /\ sigalrm_handler = "SIG_DFL"
  /\ default_sigint_handler = ""
  /\ alarm = 0
  /\ hook = "func"
  /\ insts = <<>>
  /\ closeCalls = <<>>
  /\ hookEnd = "none"
  /\ atCatch = {}
  /\ sigints = 0
  /\ stray = FALSE
  /\ NoConnection

\* the statements of SIGINT_protected_func
HookStep ==
  \/ FuncReturns
  \/ FuncInterrupt
  \/ GetSignal
  \/ InstallIgnore
  \/ InstallTimeoutError
  \/ ArmAlarm
  \/ ListItems
  \/ CloseNext
  \/ LoopEnd
  \/ RestoreSigint
  \/ CancelAlarm
  \/ WrapperReturns

NextShutdown ==
  \/ HookStep
  \/ Sigint
  \/ Tick

SpecShutdown == InitShutdown /\ [][NextShutdown]_vars

\* The interpreter keeps running the wrapper, and time passes.
SpecShutdownFair == SpecShutdown /\ WF_vars(HookStep) /\ WF_vars(Tick)

(***************************************************************************)
(* Vocabulary of the properties.                                           *)
(***************************************************************************)
IsWrite(e) == e.op = "write"
\* the commands caller t has written during its current top-level call, in order
Writes(t) ==
  LET w == SelectSeq(io[t], IsWrite) IN [k \in 1 .. Len(w) |-> w[k].cmd]
HasWritten(t) == Writes(t) # <<>>
Finished(t) == outcome[t].kind # "none"

\* caller t has a transport operation of a driver method still to issue
PendingIo(t) ==
  /\ stack[t] # <<>>
  /\ Top(t).fn \in {"send", "query", "_check_status"}
  /\ Top(t).pc \in {"flush", "reset", "write", "read"}

\* caller t is inside a command cycle: past its first write, before its last read
InCycle(t) == HasWritten(t) /\ PendingIo(t)

\* the sub-register queries of the status byte table: bit 0 -> LSR1?,
\* bit 1 -> LSR2?, bit 5 -> *ESR?
ExpectedSubQueries(stb) ==
  (IF Bit(stb, 0) THEN <<"LSR1?">> ELSE <<>>)
    \o (IF Bit(stb, 1) THEN <<"LSR2?">> ELSE <<>>)
    \o (IF Bit(stb, 5) THEN <<"*ESR?">> ELSE <<>>)

\* the device answers every register query with a value that raises nothing
QuietSubRegisters ==
  /\ dev.mute \cap RegisterQueries = {}
  /\ InRange(dev.lsr1) /\ InRange(dev.lsr2) /\ InRange(dev.esr)
  /\ \A k \in 2 .. 5 : ~Bit(dev.esr, k)

\* the device holds a condition the cascade reports as an error: a register
\* value outside [0, 255], an event status error bit (2, 3, 5), or a pending
\* execution error (bit 4) with a non-zero code
StatusHoldsError ==
  \/ ~InRange(dev.stb)
  \/ /\ InRange(dev.stb)
     /\ \/ Bit(dev.stb, 0) /\ ~InRange(dev.lsr1)
        \/ Bit(dev.stb, 1) /\ ~InRange(dev.lsr2)
        \/ /\ Bit(dev.stb, 5)
           /\ \/ ~InRange(dev.esr)
              \/ Bit(dev.esr, 2) \/ Bit(dev.esr, 3) \/ Bit(dev.esr, 5)
              \/ Bit(dev.esr, 4) /\ dev.eer # 0

\* the register levels open on caller t's stack: the status byte exchange,
\* a sub-register query (LSR, ESR, EER) and the event status decode
IsStatusLevel(f) ==
  \/ f.fn \in {"_check_status", "_process_event_status_register"}
  \/ f.fn = "query" /\ f.cmd \in RegisterQueries
StatusDepth(t) == Len(SelectSeq(stack[t], IsStatusLevel))

\* the response read of caller t's top-level query timed out
ResponseTimedOut(t) ==
  /\ call[t].op = "query"
  /\ \E k \in 1 .. Len(io[t]) : io[t][k] = Ev("timeout", call[t].cmd)

(***************************************************************************)
(* C1. At most one command cycle is in progress on the transport at any    *)
(* instant: two callers are never both between the first write and the     *)
(* last read of their cycles. (SpecConc; violated: send and query take no  *)
(* lock.)                                                                  *)
(***************************************************************************)
OneCycleAtATime ==
  \A t \in Callers : \A u \in Callers \ {t} : ~(InCycle(t) /\ InCycle(u))

(***************************************************************************)
(* C2. For every status byte in 0..255, with sub-register replies that     *)
(* raise nothing, a cascade queries LSR1? iff bit 0 is set, LSR2? iff      *)
(* bit 1 is set and *ESR? iff bit 5 is set, all in the same invocation,    *)
(* and nothing else: the writes of a finished call are the command, *STB?  *)
(* and exactly the sub-queries of the table.                               *)
(***************************************************************************)
StbCascadeExact ==
  \A t \in Callers :
    (/\ Finished(t)
     /\ InRange(dev.stb)
     /\ QuietSubRegisters
     /\ \/ call[t].op = "send" /\ dev.mute = {}
        \/ call[t].op = "query" /\ dev.mute = {QueryCmd})
    => /\ Writes(t) = <<call[t].cmd, "*STB?">> \o ExpectedSubQueries(dev.stb)
       /\ call[t].op = "send" => outcome[t] = Returned(NoLine)

\* C2 witness: a send has returned after a cascade on a status byte with
\* bits 0, 1 and 5 all set, having queried all three sub-registers.
StbCascadeExactWitness ==
  /\ call[1].op = "send"
  /\ outcome[1].kind = "return"
  /\ dev.stb = 35
  /\ Writes(1) = <<SetCmd, "*STB?", "LSR1?", "LSR2?", "*ESR?">>

(***************************************************************************)
(* C3. One top-level send or query nests status levels at most three deep  *)
(* (STB, then LSR or ESR, then EER), whatever the device does. (Violated:  *)
(* a sub-query that times out starts a new status check from inside the    *)
(* cascade.)                                                               *)
(***************************************************************************)
BoundedStatusDepth == \A t \in Callers : StatusDepth(t) <= 3

(***************************************************************************)
(* C4. Every send(cmd) writes cmd first and runs a status check before it  *)
(* returns: the first write of the call is cmd, a send that has returned   *)
(* has written *STB? second, read the status byte and found it in range,   *)
(* and a send to a device whose status holds an error ends by raising.     *)
(***************************************************************************)
SendWritesThenChecks ==
  \A t \in Callers :
    call[t].op = "send" =>
      /\ HasWritten(t) => Writes(t)[1] = call[t].cmd
      /\ outcome[t].kind = "return" =>
           /\ Len(Writes(t)) >= 2
           /\ Writes(t)[2] = "*STB?"
           /\ \E k \in 1 .. Len(io[t]) : io[t][k] = Ev("read", "*STB?")
           /\ InRange(dev.stb)
      /\ (Finished(t) /\ dev.mute = {} /\ StatusHoldsError) =>
           /\ outcome[t].kind = "raise"
           /\ outcome[t].type \in {"CPX400DPError", "KeyError"}
           /\ ~InRange(dev.stb) => outcome[t].type = "CPX400DPError"

\* C4 witness: a send whose cascade rejected the status byte has raised
\* CPX400DPError to its caller, after writing the command and then *STB?.
SendWritesThenChecksWitness ==
  /\ call[1].op = "send"
  /\ outcome[1].kind = "raise"
  /\ outcome[1].type = "CPX400DPError"
  /\ dev.stb = RegMax + 1
  /\ Writes(1) = <<SetCmd, "*STB?">>

(***************************************************************************)
(* C5. Every query whose response is read successfully runs the status     *)
(* cascade before it returns the response. (Violated: query checks the     *)
(* status only in its except clause.)                                      *)
(***************************************************************************)
QueryChecksStatus ==
  \A t \in Callers :
    (call[t].op = "query" /\ outcome[t].kind = "return")
      => \E k \in 1 .. Len(Writes(t)) : Writes(t)[k] = "*STB?"

(***************************************************************************)
(* C6, as claimed. When the response read of a query times out, the call   *)
(* ends with the timeout error. (Violated: an error the status check       *)
(* raises replaces it.)                                                    *)
(***************************************************************************)
TimeoutAlwaysReraised ==
  \A t \in Callers :
    (ResponseTimedOut(t) /\ Finished(t)) => outcome[t] = ReadTimeout

(***************************************************************************)
(* C6, amended. When the response read of a query times out, the call      *)
(* never returns a value: it writes *STB? next and ends by raising, the    *)
(* timeout error whenever the status check completes without an error of   *)
(* its own (here: the status byte is answered, in range and has none of    *)
(* bits 0, 1, 5).                                                          *)
(***************************************************************************)
TimeoutChecksThenFails ==
  \A t \in Callers :
    ResponseTimedOut(t) =>
      /\ outcome[t].kind # "return"
      /\ Finished(t) =>
           /\ Len(Writes(t)) >= 2
           /\ Writes(t)[2] = "*STB?"
      /\ (/\ Finished(t)
          /\ "*STB?" \notin dev.mute
          /\ InRange(dev.stb)
          /\ ExpectedSubQueries(dev.stb) = <<>>)
         => outcome[t] = ReadTimeout

\* C6 witness: a query whose response read timed out has checked the status
\* (clean) and raised the timeout error.
TimeoutChecksThenFailsWitness ==
  /\ ResponseTimedOut(1)
  /\ outcome[1] = ReadTimeout
  /\ Writes(1) = <<QueryCmd, "*STB?">>
  /\ \E k \in 1 .. Len(io[1]) : io[1][k] = Ev("read", "*STB?")

(***************************************************************************)
(* C7. close is idempotent: a second or later close on an instrument, once *)
(* it has ended, has raised nothing and has issued no operation on the     *)
(* released port. (SpecLife; violated: _close runs again on the closed     *)
(* Serial object.)                                                         *)
(***************************************************************************)
CloseIdempotent ==
  \A i \in Insts :
    (closes[i] >= 2 /\ lastClose[i] # "running") =>
      (lastClose[i] = "ok" /\ ~touched[i])

(***************************************************************************)
(* C8. Outside a running constructor and a running close(), the registry   *)
(* contains an instrument exactly when its open has succeeded and its      *)
(* close has not completed. (SpecLife; violated: the instrument is         *)
(* registered before _open runs and stays registered when the construction *)
(* raises.)                                                                *)
(***************************************************************************)
RegistryExact ==
  \A i \in Insts :
    (obj[i] # "constructing" /\ \A c \in Closers : closing[c].inst # i) =>
      (i \in registry <=> obj[i] = "open")

(***************************************************************************)
(* C9. Once a with-block on an instrument is left (its __exit__ has ended), *)
(* normally or by an exception, the instrument is closed and absent from   *)
(* the registry; inside the block, until a close() call is made on it, the *)
(* registry contains it and its port is open. (SpecLife; violated: when    *)
(* _close raises on the open port, __exit__ ends with the port open and    *)
(* the instrument registered.)                                             *)
(***************************************************************************)
WithBlockReleases ==
  \A i \in Insts :
    /\ (exitPath[i] # "none" /\ ~inWith[i]) =>
         /\ conn[i] = "closed"
         /\ i \notin registry
         /\ obj[i] \in {"closed", "dead"}
    /\ (inWith[i] /\ obj[i] = "open" /\ ~InCall(i)) =>
         (i \in registry /\ conn[i] = "open")

(***************************************************************************)
(* C10. The registry never extends an instrument's lifetime: once no       *)
(* strong reference to a registered instrument that was never closed is    *)
(* left, the instrument is finalized (__del__ calls close) and the         *)
(* registry no longer contains it. (SpecLifeFair; violated: an opened      *)
(* instrument is in a reference cycle with its channels, so dropping the   *)
(* last reference finalizes nothing, and it stays registered with its port *)
(* open for as long as the cycle collector does not run.)                  *)
(***************************************************************************)
DroppedIsFinalized ==
  \A i \in Insts :
    (obj[i] \in {"open", "failed"} /\ closes[i] = 0 /\ refs[i] = 0 /\ i \in registry)
      ~> (obj[i] = "dead" /\ closes[i] > 0 /\ i \notin registry)

\* the items close() was called on by the hook
Closed == {closeCalls[k] : k \in DOMAIN closeCalls}

\* the except clause of the wrapper has been entered
InterruptCaught ==
  /\ hook # "func"
  /\ ~(hookEnd = "return" /\ default_sigint_handler = "")

\* the wrapper is between catching the interruption and the end of its close
\* pass (the handler it saved is not installed again yet)
InShutdown ==
  hook \in {"getsignal", "ignore", "sigalrm", "alarm", "list", "loop", "closing",
            "restore"}

(***************************************************************************)
(* C11. When a KeyboardInterrupt escapes the protected function, close is  *)
(* called on every item that was in close_items at that moment, unless a   *)
(* close fails or the deadline elapses: a wrapper that has ended otherwise *)
(* has called close on all of them. (SpecShutdown; violated: a second      *)
(* SIGINT before the handler is replaced ends the wrapper with no close    *)
(* made, see C14.)                                                         *)
(***************************************************************************)
AllItemsClosed ==
  (/\ InterruptCaught
   /\ HookEnded
   /\ hookEnd \notin {"CloseError", "TimeoutError"})
  => atCatch \subseteq Closed

(***************************************************************************)
(* C12. When close fails on one item during shutdown, close is still       *)
(* called on every remaining item of close_items. (SpecShutdown; violated: *)
(* the exception of the failing close leaves the for loop.)                *)
(***************************************************************************)
CloseFailureContinues == hookEnd = "CloseError" => atCatch \subseteq Closed

(***************************************************************************)
(* C13. On every way the wrapper can end after it saved and replaced the   *)
(* SIGINT handler, the handler installed before is installed again.        *)
(* (SpecShutdown; violated: the restore is skipped when a close raises or  *)
(* the alarm raises TimeoutError.)                                         *)
(***************************************************************************)
HandlerRestored ==
  (HookEnded /\ default_sigint_handler # "") => sigint_handler = script.orig

(***************************************************************************)
(* C14. From the moment the interruption is caught until the close pass    *)
(* has finished there is no instant at which a SIGINT raises               *)
(* KeyboardInterrupt, and no KeyboardInterrupt ends the wrapper before the *)
(* pass is complete. (SpecShutdown; violated: the handler is replaced only *)
(* by the second statement of the except clause.)                          *)
(***************************************************************************)
SecondInterruptHeldOff ==
  /\ InShutdown => sigint_handler # "default_int_handler"
  /\ hookEnd = "KeyboardInterrupt" => atCatch \subseteq Closed

(***************************************************************************)
(* C15. The wrapper never blocks forever: once the interruption is caught  *)
(* the wrapper ends, and a close that does not return is ended by the      *)
(* deadline with a TimeoutError that leaves the wrapper.                   *)
(* (SpecShutdownFair; violated: with a timeout of 0 signal.alarm schedules *)
(* no alarm and the wrapper waits for the close forever.)                  *)
(***************************************************************************)
DeadlineEndsShutdown ==
  /\ (hook = "closing") ~> (hook = "raised" /\ hookEnd = "TimeoutError")
  /\ InterruptCaught ~> HookEnded

\* the event k of caller t's current call
IoAt(t, k) == io[t][k]
\* caller t has read the reply to cmd before it wrote cmd2
ReadBeforeWrite(t, cmd, cmd2) ==
  \A k \in 1 .. Len(io[t]) :
    IoAt(t, k) = Ev("write", cmd2) =>
      \E j \in 1 .. (k - 1) : IoAt(t, j) = Ev("read", cmd)
\* caller t has written cmd during its current call
Wrote(t, cmd) == \E k \in 1 .. Len(Writes(t)) : Writes(t)[k] = cmd

OverVoltageTrip(ch) == Warn(ch, "output over voltage trip occured")
ExecutionError104 == Raised("CPX400DPError", "104: Command not valid with output on")

\* the device of the scenario: status byte 0x21, LSR1? = 0x04, *ESR? = 0x10,
\* EER? = 104, every register query answered
ScenarioDevice ==
  /\ dev.stb = 33 /\ dev.lsr1 = 4 /\ dev.esr = 16 /\ dev.eer = 104
  /\ dev.mute \cap RegisterQueries = {}

(***************************************************************************)
(* C16. For a status byte with bits 0 and 5 set the cascade reads LSR1 and *)
(* emits its warnings before it writes *ESR?. With LSR1? = 0x04,           *)
(* *ESR? = 0x10 and EER? = 104, a send or a timed-out query whose cascade  *)
(* has run ends with exactly one warning, the channel 1 over voltage trip, *)
(* and with the execution error of code 104 raised to its caller.          *)
(***************************************************************************)
LimitsBeforeEvents ==
  \A t \in Callers :
    /\ (InRange(dev.stb) /\ Bit(dev.stb, 0) /\ Bit(dev.stb, 5)) =>
         /\ ReadBeforeWrite(t, "LSR1?", "*ESR?")
         /\ (Wrote(t, "*ESR?") /\ InRange(dev.lsr1) /\ dev.mute = {}) =>
              /\ Len(warnings[t]) >= Len(LimitWarnings(dev.lsr1, 1))
              /\ SubSeq(warnings[t], 1, Len(LimitWarnings(dev.lsr1, 1)))
                   = LimitWarnings(dev.lsr1, 1)
    /\ (ScenarioDevice /\ Wrote(t, "*ESR?")) => warnings[t] = <<OverVoltageTrip(1)>>
    /\ (ScenarioDevice /\ Finished(t) /\ Wrote(t, "*STB?")) =>
         /\ outcome[t] = ExecutionError104
         /\ warnings[t] = <<OverVoltageTrip(1)>>
         /\ Writes(t) = <<call[t].cmd, "*STB?", "LSR1?", "*ESR?", "EER?">>

\* C16 witness: a send to the scenario's device has ended with the single
\* channel 1 warning and the error of code 104.
LimitsBeforeEventsWitness ==
  /\ ScenarioDevice
  /\ call[1].op = "send"
  /\ outcome[1] = ExecutionError104
  /\ warnings[1] = <<OverVoltageTrip(1)>>

\* caller t's send has ended against a device that answers everything, whose
\* status byte reports an event (bit 5) and whose limit and event status
\* values are in range: the event status decode has run on dev.esr
EsrDecoded(t) ==
  /\ call[t].op = "send"
  /\ Finished(t)
  /\ dev.mute = {}
  /\ InRange(dev.stb) /\ Bit(dev.stb, 5)
  /\ InRange(dev.lsr1) /\ InRange(dev.lsr2)
  /\ InRange(dev.esr)

\* the event status decode of caller t's send went on to decode dev.eer
EerDecoded(t) ==
  /\ EsrDecoded(t)
  /\ ~Bit(dev.esr, 2) /\ ~Bit(dev.esr, 3) /\ Bit(dev.esr, 4)

\* the execution error codes of the fixed table that stand for an error
TableCodes == (1 .. 9) \cup (100 .. 104) \cup {200}

(***************************************************************************)
(* C17. For every Event Status Register value in 0..255 the decode acts on *)
(* its error bits as the register table says: bit 2 raises the query       *)
(* error, bit 3 the verify timeout error, bit 4 queries EER? and decodes   *)
(* the reply as an execution error code, bit 5 raises the command parsing  *)
(* error (of several set error bits the lowest decides), and a value with  *)
(* only bits 0, 1, 6, 7 set raises nothing and issues no sub-query.        *)
(***************************************************************************)
EventStatusDecode ==
  \A t \in Callers :
    EsrDecoded(t) =>
      LET e == dev.esr IN
        /\ Bit(e, 2) => (outcome[t] = QueryError /\ ~Wrote(t, "EER?"))
        /\ (~Bit(e, 2) /\ Bit(e, 3)) =>
             (outcome[t] = VerifyTimeoutError /\ ~Wrote(t, "EER?"))
        /\ (~Bit(e, 2) /\ ~Bit(e, 3) /\ Bit(e, 4)) =>
             /\ Writes(t)[Len(Writes(t))] = "EER?"
             /\ IoAt(t, Len(io[t])) = Ev("read", "EER?")
             /\ outcome[t] = ProcessExecutionError(dev.eer)
        /\ (~Bit(e, 2) /\ ~Bit(e, 3) /\ ~Bit(e, 4) /\ Bit(e, 5)) =>
             (outcome[t] = CommandParsingError /\ ~Wrote(t, "EER?"))
        /\ (\A k \in 2 .. 5 : ~Bit(e, k)) =>
             /\ outcome[t] = Returned(NoLine)
             /\ Writes(t)[Len(Writes(t))] = "*ESR?"

\* C17 witness: a send has ended with the verify timeout error after the
\* cascade read an event status value with bit 3 set.
EventStatusDecodeWitness ==
  /\ EsrDecoded(1)
  /\ Bit(dev.esr, 3)
  /\ outcome[1] = VerifyTimeoutError
  /\ IoAt(1, Len(io[1])) = Ev("read", "*ESR?")

(***************************************************************************)
(* C18. For every execution error code of the fixed table (1 to 9, 100 to  *)
(* 104, 200) returned by EER?, the decode raises the driver's error with   *)
(* the table message of that code, a message no other code of the table    *)
(* has; for code 104 it is "104: Command not valid with output on".        *)
(***************************************************************************)
ExecutionErrorTable ==
  \A t \in Callers :
    (EerDecoded(t) /\ dev.eer \in TableCodes) =>
      /\ outcome[t].kind = "raise"
      /\ outcome[t].type = "CPX400DPError"
      /\ outcome[t].msg = messages(dev.eer)
      /\ \A c \in TableCodes \ {dev.eer} : outcome[t].msg # messages(c)
      /\ dev.eer = 104 => outcome[t].msg = "104: Command not valid with output on"
      /\ dev.eer = 200 => outcome[t].msg = "200: Read only, interface is locked"
      /\ dev.eer = 1 => outcome[t].msg = "1: Internal hardware error"

\* C18 witness: a send has ended with the error of code 200 after the
\* cascade read it from EER?.
ExecutionErrorTableWitness ==
  /\ EerDecoded(1)
  /\ dev.eer = 200
  /\ outcome[1] = Raised("CPX400DPError", "200: Read only, interface is locked")
  /\ IoAt(1, Len(io[1])) = Ev("read", "EER?")

(***************************************************************************)
(* C19. When EER? returns code 0 (no error), decoding it is a no-op: no    *)
(* error is raised and the outer send completes normally. (Violated:       *)
(* _process_execution_error raises for every code, 0 included.)            *)
(***************************************************************************)
EerZeroIsNoOp ==
  \A t \in Callers :
    (EerDecoded(t) /\ dev.eer = 0 /\ ~Bit(dev.esr, 5)) => outcome[t] = Returned(NoLine)

(***************************************************************************)
(* C20. When EER? returns a code that is not in the fixed table, the       *)
(* decode fails with an error of the driver's own error class whose        *)
(* message is none of the table's. (Violated: the table lookup raises      *)
(* KeyError.)                                                              *)
(***************************************************************************)
UnknownCodeIsDriverError ==
  \A t \in Callers :
    (EerDecoded(t) /\ dev.eer \notin EerCodes) =>
      /\ outcome[t].kind = "raise"
      /\ outcome[t].type = "CPX400DPError"
      /\ \A c \in EerCodes : outcome[t].msg # messages(c)

\* the warnings of caller t's current call that are tagged with channel ch
IsChannel1(w) == w.ch = 1
IsChannel2(w) == w.ch = 2
ChannelWarnings(t, ch) ==
  IF ch = 1 THEN SelectSeq(warnings[t], IsChannel1)
            ELSE SelectSeq(warnings[t], IsChannel2)

\* the bits of a limit status value that stand for a condition
ReportedBits(lsr) == {k \in {0, 1, 2, 3, 4, 6} : Bit(lsr, k)}

\* the limit status value of channel ch
LsrOf(ch) == IF ch = 1 THEN dev.lsr1 ELSE dev.lsr2

\* v is no value of an 8-bit register
OutOfByte(v) == v < 0 \/ v > 255

\* caller t's send has ended against a device that answers everything
SendEnded(t) == call[t].op = "send" /\ Finished(t) /\ dev.mute = {}

(***************************************************************************)
(* C21. For every Limit Status Register value in 0..255 and channel n the  *)
(* decode emits exactly one warning tagged with channel n for each set bit *)
(* among bits 0, 1, 2, 3, 4, 6, nothing for bits 5 and 7, and raises no    *)
(* error: a send whose status byte reports limit events only returns.      *)
(***************************************************************************)
LimitDecode ==
  \A t \in Callers : \A ch \in {1, 2} :
    (/\ SendEnded(t)
     /\ ~OutOfByte(dev.stb) /\ ~Bit(dev.stb, 5)
     /\ ~OutOfByte(dev.lsr1) /\ ~OutOfByte(dev.lsr2))
    => LET ws == ChannelWarnings(t, ch)
           lsr == LsrOf(ch) IN
         /\ outcome[t] = Returned(NoLine)
         /\ Len(warnings[t]) = Len(ChannelWarnings(t, 1)) + Len(ChannelWarnings(t, 2))
         /\ IF Bit(dev.stb, ch - 1)
            THEN /\ Len(ws) = Cardinality(ReportedBits(lsr))
                 /\ \A k \in ReportedBits(lsr) :
                      \E j \in 1 .. Len(ws) : ws[j] = Warn(ch, LimitText(k))
                 /\ \A j \in 1 .. Len(ws) :
                      \E k \in ReportedBits(lsr) : ws[j] = Warn(ch, LimitText(k))
            ELSE ws = <<>>

\* C21 witness: a send has returned after the cascade decoded the limit
\* status value 255 of channel 2 into six warnings.
LimitDecodeWitness ==
  /\ SendEnded(1)
  /\ outcome[1] = Returned(NoLine)
  /\ Bit(dev.stb, 1)
  /\ dev.lsr2 = 255
  /\ Len(ChannelWarnings(1, 2)) = 6

(***************************************************************************)
(* C22. A status byte, limit status or event status value outside          *)
(* [0, 255] is rejected with the driver's error before any of its bits is  *)
(* acted on: the read of the value is the last transport operation of the  *)
(* call, so no sub-register query follows it, and no warning is emitted    *)
(* for it.                                                                 *)
(***************************************************************************)
OutOfRangeRejected ==
  \A t \in Callers :
    SendEnded(t) =>
      /\ OutOfByte(dev.stb) =>
           /\ outcome[t].kind = "raise" /\ outcome[t].type = "CPX400DPError"
           /\ Writes(t) = <<call[t].cmd, "*STB?">>
           /\ IoAt(t, Len(io[t])) = Ev("read", "*STB?")
           /\ warnings[t] = <<>>
      /\ (~OutOfByte(dev.stb) /\ Bit(dev.stb, 0) /\ OutOfByte(dev.lsr1)) =>
           /\ outcome[t].kind = "raise" /\ outcome[t].type = "CPX400DPError"
           /\ IoAt(t, Len(io[t])) = Ev("read", "LSR1?")
           /\ warnings[t] = <<>>
      /\ (~OutOfByte(dev.stb) /\ Bit(dev.stb, 1) /\ OutOfByte(dev.lsr2)
          /\ (Bit(dev.stb, 0) => ~OutOfByte(dev.lsr1))) =>
           /\ outcome[t].kind = "raise" /\ outcome[t].type = "CPX400DPError"
           /\ IoAt(t, Len(io[t])) = Ev("read", "LSR2?")
           /\ ChannelWarnings(t, 2) = <<>>
      /\ (~OutOfByte(dev.stb) /\ Bit(dev.stb, 5) /\ OutOfByte(dev.esr)
          /\ (Bit(dev.stb, 0) => ~OutOfByte(dev.lsr1))
          /\ (Bit(dev.stb, 1) => ~OutOfByte(dev.lsr2))) =>
           /\ outcome[t].kind = "raise" /\ outcome[t].type = "CPX400DPError"
           /\ IoAt(t, Len(io[t])) = Ev("read", "*ESR?")
           /\ ~Wrote(t, "EER?")
           /\ Len(warnings[t]) = Len(ChannelWarnings(t, 1)) + Len(ChannelWarnings(t, 2))

\* C22 witness: a send has ended with the driver's error right after it read
\* the limit status value -1 of channel 1, with no warning logged.
OutOfRangeRejectedWitness ==
  /\ SendEnded(1)
  /\ Bit(dev.stb, 0) /\ ~OutOfByte(dev.stb)
  /\ dev.lsr1 = -1
  /\ outcome[1] = LimitRangeError(-1)
  /\ warnings[1] = <<>>
  /\ IoAt(1, Len(io[1])) = Ev("read", "LSR1?")

\* the positions of caller t's current call at which cmd was written
WritesOf(t, cmd) == {k \in 1 .. Len(io[t]) : IoAt(t, k) = Ev("write", cmd)}
\* the positions at which the read of the reply to cmd timed out
TimeoutsOf(t, cmd) == {k \in 1 .. Len(io[t]) : IoAt(t, k) = Ev("timeout", cmd)}
\* the commands the driver can write
AllCommands == {SetCmd, QueryCmd} \cup RegisterQueries

(***************************************************************************)
(* C30. There is no automatic retry: the command of a send or query call   *)
(* is written once within the call, and once a read has timed out its      *)
(* command is not written again. (Violated: a cascade sub-query that times *)
(* out is written again by the status check it starts, see C3.)            *)
(***************************************************************************)
NoRetry ==
  \A t \in Callers :
    /\ Finished(t) => Cardinality(WritesOf(t, call[t].cmd)) = 1
    /\ \A cmd \in AllCommands :
         \A k \in TimeoutsOf(t, cmd) : \A j \in WritesOf(t, cmd) : j < k

\* the command of the grammar for accessor acc of channel n
GrammarStem(acc) ==
  CASE acc \in {"voltage", "voltage_setpoint", "voltage_setpoint="} -> "V"
    [] acc \in {"current", "current_setpoint", "current_setpoint="} -> "I"
    [] acc \in {"ovp", "ovp="} -> "OVP"
    [] acc \in {"ocp", "ocp="} -> "OCP"
    [] OTHER -> "OP"
GrammarTail(acc, value) ==
  CASE acc \in {"voltage", "current"} -> "O?"
    [] acc \in Setters -> " " \o Fixed3(value)
    [] acc = "output_on" -> " 1"
    [] acc = "output_off" -> " 0"
    [] OTHER -> "?"
Grammar(acc, n, value) == GrammarStem(acc) \o ToString(n) \o GrammarTail(acc, value)

\* the commands of caller t's current call that are not the driver's own
\* register queries, in the order they were written
IsOwnCommand(cmd) == cmd \notin RegisterQueries
OwnWrites(t) == SelectSeq(Writes(t), IsOwnCommand)

\* the value the device holds for query q when the query is made
DeviceValue(q) ==
  LET line == dev.mem[q] IN
    IF q \in {"OP1?", "OP2?"} THEN BoolValue(line.parts[2] = "1")
    ELSE IF q \in {"V1O?", "V2O?", "I1O?", "I2O?"}
         THEN FloatValue(FloatOf(line.parts[1]))
         ELSE FloatValue(FloatOf(line.parts[2]))

\* caller t's accessor call returns in this step
AccessorReturns(t) ==
  /\ call[t].op \in Accessors
  /\ outcome[t].kind = "none"
  /\ outcome'[t].kind = "return"

\* an accessor call that has ended has written one command of its own, the
\* command of the grammar for its channel: a getter through query (nothing
\* else is written when the query is answered), a setter or switch through
\* send (the status check follows)
OneGrammarCommand ==
  \A t \in Callers :
    (call[t].op \in Accessors /\ Finished(t)) =>
      /\ call[t].ch \in Channels
      /\ OwnWrites(t) = <<Grammar(call[t].op, call[t].ch, call[t].arg)>>
      /\ Writes(t)[1] = Grammar(call[t].op, call[t].ch, call[t].arg)
      /\ IF call[t].op \in Getters
         THEN outcome[t].kind = "return" => Writes(t) = <<call[t].cmd>>
         ELSE Len(Writes(t)) >= 2 /\ Writes(t)[2] = "*STB?"

(***************************************************************************)
(* C25. Each channel accessor of channel n makes exactly one call to send  *)
(* or query, with the command of the grammar for index n, and keeps no     *)
(* cached value: the value a getter returns is the value the device holds  *)
(* when the getter is called, also after the value has changed since the   *)
(* last read.                                                              *)
(***************************************************************************)
AccessorsAreStateless ==
  /\ []OneGrammarCommand
  /\ [][\A t \in Callers :
          (AccessorReturns(t) /\ call[t].op \in Getters)
            => outcome'[t] = Returned(DeviceValue(call[t].cmd))]_vars

\* C25 witness: the voltage of channel 2 was read as 0.000, the device's
\* value changed, and the second read has returned the new value 5.000.
AccessorsAreStatelessWitness ==
  /\ call[1].op = "voltage" /\ call[1].ch = 2
  /\ call[1].cmd = "V2O?"
  /\ call[1].prev.op = "voltage"
  /\ call[1].prev.out = Returned(FloatValue(0))
  /\ dev.changes = 1
  /\ outcome[1] = Returned(FloatValue(5000))
  /\ OwnWrites(1) = <<"V2O?">>

(***************************************************************************)
(* C26. For every setpoint value of at most three decimals (an integer     *)
(* number of thousandths), setting voltage_setpoint to the value and then  *)
(* reading voltage_setpoint, against a device that echoes the set value    *)
(* back in query form, returns exactly that value.                         *)
(***************************************************************************)
SetpointRoundTrip ==
  \A t \in Callers :
    (/\ call[t].op = "voltage_setpoint"
     /\ call[t].prev.op = "voltage_setpoint="
     /\ call[t].prev.out = Returned(NoLine)
     /\ Finished(t))
    => outcome[t] = Returned(FloatValue(call[t].arg))

\* C26 witness: 12.345 was set as "V1 12.345", the device echoes it, and the
\* read has returned 12.345.
SetpointRoundTripWitness ==
  /\ call[1].op = "voltage_setpoint"
  /\ call[1].prev.op = "voltage_setpoint="
  /\ call[1].prev.cmd = "V1 12.345"
  /\ call[1].arg = 12345
  /\ dev.mem["V1?"] = SetpointLine("V", 1, "12.345")
  /\ outcome[1] = Returned(FloatValue(12345))

\* an error of the status cascade: a consistency, parse, device-timeout or
\* execution error, all raised as the driver's error
CascadeError(out) == out.kind = "raise" /\ out.type = "CPX400DPError"

\* caller t's current call has written its command and read (or waited in
\* vain for) an answer after it
CompleteCycle(t) ==
  /\ Writes(t) # <<>>
  /\ Writes(t)[1] = call[t].cmd
  /\ \E j, k \in 1 .. Len(io[t]) :
       /\ j < k
       /\ IoAt(t, j) = Ev("write", call[t].cmd)
       /\ IoAt(t, k).op \in {"read", "timeout"}
  /\ call[t].op \notin Getters => Wrote(t, "*STB?")

(***************************************************************************)
(* C23. A send or query that fails with an error of the status cascade is  *)
(* fatal for that operation only: the operation is over, the instrument    *)
(* is still open and in the registry, with its two channels, and the call  *)
(* that follows runs a complete command cycle.                             *)
(***************************************************************************)
CascadeErrorIsLocal ==
  \A t \in Callers :
    /\ CascadeError(outcome[t]) =>
         /\ stack[t] = <<>>
         /\ obj[1] = "open" /\ conn[1] = "open" /\ 1 \in registry
         /\ channels[1] = <<1, 2>>
    /\ (CascadeError(call[t].prev.out) /\ Finished(t)) => CompleteCycle(t)

\* C23 witness: output_on failed with the execution error 104, the registers
\* were cleared by the reads, and the voltage read that followed has returned.
CascadeErrorIsLocalWitness ==
  /\ call[1].prev.op = "output_on"
  /\ call[1].prev.out = ExecutionError104
  /\ call[1].op = "voltage"
  /\ outcome[1] = Returned(FloatValue(0))
  /\ CompleteCycle(1)
  /\ obj[1] = "open" /\ 1 \in registry

(***************************************************************************)
(* C24. With a single caller, bytes pending at the start of query or of    *)
(* the status check are discarded before the command is written, so the    *)
(* line returned for a query never contains bytes received before that     *)
(* query's command was written. (Violated: a line that arrives after the   *)
(* look at the input buffer and before the write is returned.)             *)
(***************************************************************************)
NoStaleLineReturned ==
  \A t \in Callers : \A i, j \in 1 .. Len(io[t]) :
    (/\ i < j /\ j < Len(io[t])
     /\ IoAt(t, i) = Ev("arrive", "late")
     /\ IoAt(t, j).op = "write" /\ IoAt(t, j).cmd # "*STB?")
    => IoAt(t, j + 1) # Ev("read", "late")

\* the construction of instrument 1 has succeeded
Opened == obj[1] = "open"
\* the positions of the first write of cmd in caller 1's construction
FirstWrite(cmd) == CHOOSE k \in WritesOf(1, cmd) : \A j \in WritesOf(1, cmd) : k <= j
\* the constructor is the only call that has run _open: the log of caller 1
\* is that of the construction
ConstructedOnce == calls[1] = 1
\* the set commands of the construction, each with its read-back query
EnableCommands ==
  {<<"LSE1 255", "LSE1?">>, <<"LSE2 255", "LSE2?">>,
   <<"*SRE 255", "*SRE?">>, <<"*ESE 255", "*ESE?">>}

(***************************************************************************)
(* C27. After open a CPX400DP has exactly two channels, with indices 1 and *)
(* 2 in that order; no channel ever has an index above the number of       *)
(* channels; chN (N in 1..4) returns the channel of index N when N is at   *)
(* most that number and fails with AttributeError otherwise. (Violated:     *)
(* _open appends its two channels to the list it finds, so after an        *)
(* _open_concrete() on the constructed instrument there are four channels  *)
(* and ch3 returns a channel of index 1.)                                  *)
(***************************************************************************)
TwoChannels ==
  /\ (Opened /\ ~Reopening(1)) => channels[1] = <<1, 2>>
  /\ \A i \in Insts : \A k \in 1 .. Len(channels[i]) : channels[i][k] <= Len(channels[i])
  /\ \A t \in Callers :
       (call[t].op = "ch" /\ Finished(t)) =>
         IF call[t].ch <= Len(channels[1])
         THEN outcome[t] = Returned(NumLine("channel", call[t].ch))
         ELSE outcome[t].kind = "raise" /\ outcome[t].type = "AttributeError"

(***************************************************************************)
(* C28. After a successful open the four identity fields manufacturer,     *)
(* model number, serial number and software version equal the four         *)
(* comma-separated fields of the *IDN? response, in that order, and none   *)
(* of them still holds 'UNKNOWN'. (Violated: the fourth field is written   *)
(* to another attribute.)                                                  *)
(***************************************************************************)
IdentityRead ==
  Opened =>
    LET fields == dev.mem["*IDN?"].parts
        id == identity[1] IN
      /\ id.manufacturer = fields[1]
      /\ id.model_number = fields[2]
      /\ id.serial_number = fields[3]
      /\ id.software_version = fields[4]
      /\ "UNKNOWN" \notin {id.manufacturer, id.model_number, id.serial_number,
                           id.software_version}

(***************************************************************************)
(* C29. A successful construction has opened the transport, issued the     *)
(* identity query, and sent *SRE 255, *ESE 255 and LSE{n} 255 for n in     *)
(* {1, 2}, each exactly once and each followed by its read-back query,     *)
(* whose value is 255; when a read-back differs from 255 the construction  *)
(* fails.                                                                  *)
(***************************************************************************)
ConstructionSequence ==
  /\ (Opened /\ ConstructedOnce) =>
       /\ conn[1] = "open"
       /\ Cardinality(WritesOf(1, "*IDN?")) = 1
       /\ \A c \in EnableCommands :
            /\ Cardinality(WritesOf(1, c[1])) = 1
            /\ Cardinality(WritesOf(1, c[2])) = 1
            /\ FirstWrite(c[1]) < FirstWrite(c[2])
            /\ \E k \in 1 .. Len(io[1]) :
                 k > FirstWrite(c[2]) /\ IoAt(1, k) = Ev("read", c[2])
            /\ dev.mem[c[2]] = NumLine(c[2], 255)
       /\ FirstWrite("LSE1?") < FirstWrite("LSE2 255")
       /\ FirstWrite("LSE2?") < FirstWrite("*IDN?")
       /\ FirstWrite("*IDN?") < FirstWrite("*SRE 255")
       /\ FirstWrite("*SRE?") < FirstWrite("*ESE 255")
  /\ \A c \in EnableCommands :
       (/\ call[1].op = "__init__"
        /\ \E k \in 1 .. Len(io[1]) : IoAt(1, k) = Ev("read", c[2])
        /\ dev.mem[c[2]] # NumLine(c[2], 255)
        /\ stack[1] = <<>>)
       => outcome[1].kind = "raise" /\ ~Opened

\* C29 witness: the construction has succeeded against a device that also
\* reported a channel 1 limit event, with the thirteen writes of a clean
\* construction and the register queries of the event.
ConstructionSequenceWitness ==
  /\ Opened
  /\ call[1].op = "__init__"
  /\ outcome[1] = Returned(NoLine)
  /\ OwnWrites(1) = <<"LSE1 255", "LSE1?", "LSE2 255", "LSE2?", "*IDN?",
                      "*SRE 255", "*SRE?", "*ESE 255", "*ESE?">>
  /\ Wrote(1, "LSR1?")

\* the error bits an event status value has set
ErrorBits(esr) == {k \in 2 .. 5 : Bit(esr, k)}

\* the least element of a non-empty set of bit numbers
Lowest(S) == CHOOSE k \in S : \A j \in S : k <= j

\* the error the branch of error bit k raises against the device at hand
ErrorOfBit(k) ==
  CASE k = 2 -> QueryError
    [] k = 3 -> VerifyTimeoutError
    [] k = 4 -> ProcessExecutionError(dev.eer)
    [] k = 5 -> CommandParsingError

(***************************************************************************)
(* C36. When the Event Status Register value has several of bits 2, 3, 4,  *)
(* 5 set, the call ends with exactly the error of the lowest of them;      *)
(* EER? is written only when bit 4 is set and bits 2 and 3 are clear, and  *)
(* the command parsing error is raised only when bit 5 is set and bits 2,  *)
(* 3 and 4 are clear.                                                      *)
(***************************************************************************)
ErrorBitPriority ==
  \A t \in Callers :
    /\ (EsrDecoded(t) /\ Cardinality(ErrorBits(dev.esr)) >= 2) =>
         /\ outcome[t] = ErrorOfBit(Lowest(ErrorBits(dev.esr)))
         /\ \A k \in ErrorBits(dev.esr) \ {Lowest(ErrorBits(dev.esr))} :
              k # 4 => outcome[t] # ErrorOfBit(k)
    /\ Wrote(t, "EER?") => ErrorBits(dev.esr) \cap {2, 3, 4} = {4}
    /\ outcome[t] = CommandParsingError => ErrorBits(dev.esr) \cap {2, 3, 4} = {}

\* C36 witness: a send has ended against an event status value with bits
\* 3, 4 and 5 set: the verify timeout error was raised and EER? never asked.
ErrorBitPriorityWitness ==
  /\ EsrDecoded(1)
  /\ ErrorBits(dev.esr) = {3, 4, 5}
  /\ outcome[1] = VerifyTimeoutError
  /\ ~Wrote(1, "EER?")

\* the last transport operation of caller t's call
LastIo(t) == io[t][Len(io[t])]

\* the status check run against the device completes without an error of
\* its own: the status byte and every sub-register it points at are
\* answered, in range, and the event status has no error bit
StatusCheckCompletes ==
  /\ "*STB?" \notin dev.mute
  /\ InRange(dev.stb)
  /\ Bit(dev.stb, 0) => ("LSR1?" \notin dev.mute /\ InRange(dev.lsr1))
  /\ Bit(dev.stb, 1) => ("LSR2?" \notin dev.mute /\ InRange(dev.lsr2))
  /\ Bit(dev.stb, 5) =>
       /\ "*ESR?" \notin dev.mute
       /\ InRange(dev.esr)
       /\ ErrorBits(dev.esr) = {}

\* the status byte is answered and reports only an event whose decode ends
\* in the execution error of the device's code
StatusCheckRaisesEer ==
  /\ dev.mute \cap {"*STB?", "LSR1?", "LSR2?", "*ESR?", "EER?"} = {}
  /\ InRange(dev.stb) /\ Bit(dev.stb, 5)
  /\ InRange(dev.lsr1) /\ InRange(dev.lsr2) /\ InRange(dev.esr)
  /\ ErrorBits(dev.esr) \cap {2, 3, 4} = {4}

(***************************************************************************)
(* C37. When the response read of a query times out and the status check   *)
(* that follows raises an error of its own, the caller receives that       *)
(* error: the timeout of the *STB? read when the status byte is not        *)
(* answered, the device error when the cascade decodes one. The original   *)
(* timeout is re-raised (the call ends with the timeout error after a      *)
(* successful read) only when the status check completed without error.    *)
(***************************************************************************)
StatusErrorReplacesTimeout ==
  \A t \in Callers :
    (ResponseTimedOut(t) /\ Finished(t)) =>
      /\ "*STB?" \in dev.mute =>
           (outcome[t] = ReadTimeout /\ LastIo(t) = Ev("timeout", "*STB?"))
      /\ StatusCheckRaisesEer => outcome[t] = ProcessExecutionError(dev.eer)
      /\ (outcome[t] = ReadTimeout /\ LastIo(t).op = "read") => StatusCheckCompletes
      /\ StatusCheckCompletes => (outcome[t] = ReadTimeout /\ LastIo(t).op = "read")

\* C37 witness: the response read of query('V1?') timed out, the status
\* check found execution error 104, and the call ended with that error.
StatusErrorReplacesTimeoutWitness ==
  /\ ResponseTimedOut(1) /\ Finished(1)
  /\ StatusCheckRaisesEer
  /\ outcome[1] = ExecutionError104
  /\ Writes(1) = <<QueryCmd, "*STB?", "*ESR?", "EER?">>

(***************************************************************************)
(* C38. Whenever SIGINT_protected_func has returned or raised, no alarm    *)
(* is scheduled, and no TimeoutError of the deadline is raised in the      *)
(* program after the wrapper has ended. (SpecShutdown; violated:           *)
(* signal.alarm(0) is the last statement of the except clause and is       *)
(* skipped when a close() raises.)                                         *)
(***************************************************************************)
AlarmDisarmedAtEnd ==
  /\ HookEnded => alarm = 0
  /\ ~stray

(***************************************************************************)
(* C35. After a close() in which _close raised on the open port, the       *)
(* instrument is still in the registry and its port is still to be closed, *)
(* so a later close or shutdown pass attempts it again; an instrument that *)
(* has left the registry while it is alive is one whose _close has closed  *)
(* the port (an object whose constructor raised before it had a connection *)
(* attribute never was in the registry, and an object in a reference cycle *)
(* leaves the registry when its finalization starts, before __del__ calls  *)
(* close).                                                                 *)
(***************************************************************************)
FailedCloseStaysRegistered ==
  \A i \in Insts :
    /\ (lastClose[i] = "termios.error" /\ obj[i] # "dead") =>
         (i \in registry /\ conn[i] = "open" /\ obj[i] \in {"open", "failed"})
    /\ (obj[i] \in Live /\ i \notin registry /\ conn[i] # "unset"
          /\ closing[GC].inst # i) =>
         conn[i] = "closed"

\* C35 witness: the only close() of an open instrument raised in _close,
\* and the instrument is still registered with its port open.
FailedCloseStaysRegisteredWitness ==
  /\ closes[1] = 1
  /\ lastClose[1] = "termios.error"
  /\ obj[1] = "open"
  /\ 1 \in registry
  /\ conn[1] = "open"

(***************************************************************************)
(* C34. While a send or query cycle of a caller on the instrument is       *)
(* between its first write and its last read, the instrument's port is     *)
(* open: close does not release the transport under in-flight I/O.         *)
(* (SpecCloseRace; violated: close and _close take no lock and do not      *)
(* look at the calls in progress.)                                         *)
(***************************************************************************)
NoCloseUnderCycle ==
  \A t \in Callers : InCycle(t) => conn[1] = "open"

\* the atomic_func calls of thread t that are past 'with self._atomic_lock'
IsInside(f) == f.m \in Wrapped /\ f.pc # "acquire"
Depth(t) == Len(SelectSeq(frames[t], IsInside))

\* the last call of thread t on the connection has ended
Ended(t) == done[t].n > 0 /\ frames[t] = <<>>

(***************************************************************************)
(* C31. A thread inside a method wrapped by atomic_operation owns the      *)
(* connection's lock, once for each wrapped call it is inside, from the    *)
(* moment the with statement is entered until the call ends; a nested      *)
(* wrapped call of the owning thread can take the lock again (no           *)
(* deadlock); and when no thread is inside a wrapped call, whether the     *)
(* calls returned or raised, the lock is free.                             *)
(***************************************************************************)
LockHeldForCall ==
  /\ \A t \in Callers :
       /\ Depth(t) > 0 => atomic_lock = [owner |-> t, count |-> Depth(t)]
       /\ (Len(frames[t]) >= 2 /\ frames[t][Len(frames[t])].pc = "acquire")
            => CanAcquire(t)
  /\ (\A t \in Callers : Depth(t) = 0) => atomic_lock = FreeLock

\* C31 witness: a compound call of thread 1 ended with the exception its
\* nested receive raised while the lock was held twice, and thread 2 has
\* taken the lock since.
LockHeldForCallWitness ==
  /\ Ended(1)
  /\ done[1].call.m = "compound"
  /\ done[1].out = Raising("AttributeError")
  /\ atomic_lock = [owner |-> 2, count |-> 1]

\* the terminator the claim gives a connection with these last settings
ClaimedTerm(settings) ==
  IF settings = NoSettings \/ settings.term = "absent" THEN CRLF ELSE settings.term

(***************************************************************************)
(* C32. A receive that returns never returns the empty string: a read      *)
(* that yields no bytes before the timeout raises a timeout error.         *)
(* (SpecSettings; violated: receive returns whatever read_until returned,  *)
(* '' included; CPX400DP._read does raise.)                                *)
(***************************************************************************)
NoEmptyResponse ==
  \A t \in Callers :
    (Ended(t) /\ done[t].call.m = "receive" /\ done[t].out.kind = "return")
      => done[t].out.text # ""

(***************************************************************************)
(* C33. Once the SerialConnection is constructed its line terminator is    *)
(* defined: the 'line_termination' of the most recent settings dict, or    *)
(* b'\r\n' when that dict names none or when no dict was given.            *)
(* (SpecSettings; violated: without a settings dict __init__ never         *)
(* assigns _line_term.)                                                    *)
(***************************************************************************)
TerminatorDefined ==
  sconn.state = "open" => sconn.line_term = ClaimedTerm(sconn.settings)

(***************************************************************************)
(* C39. A wrapped method receives the positional and keyword arguments     *)
(* the caller gave to atomic_func, and the call has the effect and the     *)
(* result of the unwrapped method: a send that returns has written the     *)
(* data the caller gave. (SpecSettings; violated: atomic_func unpacks the  *)
(* keyword dict with one star, so the keys arrive as positional            *)
(* arguments.)                                                             *)
(***************************************************************************)
ArgumentsForwarded ==
  \A t \in Callers :
    Ended(t) =>
      /\ done[t].recv = done[t].call.args
      /\ (done[t].call.m = "send" /\ done[t].out.kind = "return")
           => sconn.tx = DataOf(done[t].call.args)

====
